---- MODULE Spec2Model ----
(***************************************************************************)
(* Review-sentiment annotation and monthly aggregation:                    *)
(*   analysis/sentiment.py     load_sentiment_model, analyze_sentiment,    *)
(*                             analyze_reviews, get_sentiment_summary      *)
(*   analysis/run_analysis.py  run_analysis                                *)
(*   app.py                    get_available_months,                       *)
(*                             filter_reviews_by_month, display_reviews    *)
(*                                                                         *)
(* Texts are sequences of one-character strings.  A score is an integer    *)
(* counting units of 0.00001, so 99000 stands for 0.99 and a value rounded *)
(* to 4 decimal digits is a multiple of 10.                                *)
(***************************************************************************)
EXTENDS Integers, Sequences, FiniteSets, TLC

VARIABLES
    model,            \* st.cache_resource slot of load_sentiment_model
    mode,             \* which deterministic classifier the pipeline() call built
    pc,               \* position of the analyze_reviews invocation
    texts,            \* analyze_reviews: argument
    truncated_texts,  \* analyze_reviews: local
    i,                \* analyze_reviews: loop index of range(0, len, batch_size)
    results,          \* analyze_reviews: local, raw classifier results
    ret,              \* analyze_reviews: value returned to the caller
    calls,            \* batches handed to the classifier by this invocation
    cache,            \* st.cache_data store of analyze_reviews
    ncalls,           \* number of analyze_reviews invocations so far
    returned,         \* what analyze_reviews has returned so far, oldest first
    s_pc,             \* analyze_sentiment: outcome of the last invocation
    s_text,           \* analyze_sentiment: argument
    s_calls,          \* analyze_sentiment: strings handed to the classifier
    s_ret,            \* analyze_sentiment: value returned
    fs_reviews,       \* data/reviews.json
    fs_analyzed,      \* data/reviews_analyzed.json
    d_pc,             \* dashboard: what the last call ended with
    sentiments,       \* get_sentiment_summary: argument
    summary,          \* get_sentiment_summary: value returned
    d_reviews,        \* display_reviews: reviews
    month_options,    \* display_reviews: month_options
    month_map,        \* display_reviews: month_map
    selected_month,   \* display_reviews: selected_month
    filtered_reviews, \* display_reviews: filtered_reviews
    d_summary,        \* display_reviews: summary
    r_pc,             \* run_analysis: position of the script
    r_reviews,        \* run_analysis: reviews
    r_printed,        \* run_analysis: the counts of the printed summary
    nruns,            \* number of run_analysis processes so far
    sc_pc,            \* reviews scraper: position of the script
    driver,           \* scrape_reviews_selenium: the Chrome WebDriver
    quits,            \* driver.quit() calls of this scrape
    click_count,      \* scrape_reviews_selenium: click_count
    review_elements,  \* scrape_reviews_selenium: review_elements
    e_idx,            \* scrape_reviews_selenium: position of the for loop
    all_reviews,      \* scrape_reviews_selenium: all_reviews
    sc_ret,           \* scrape_reviews: reviews
    nscrapes,         \* number of scraper processes so far
    fs_products,      \* data/products.json
    fs_testimonials,  \* data/testimonials.json
    lcache,           \* st.cache_data stores of the three load_* functions
    l_pc,             \* dashboard loaders: position of the call
    l_fn,             \* which load_* function was called last
    l_hit,            \* whether the cache answered that call
    l_ret,            \* value that call returned
    p_pc,             \* products scraper: position of the script
    p_driver,         \* scrape_products: the Chrome WebDriver
    p_quits,          \* driver.quit() calls of this scrape
    page,             \* scrape_products: page
    product_elements, \* scrape_products: product_elements
    p_idx,            \* scrape_products: position of the inner for loop
    all_products,     \* scrape_products: all_products
    t_pc,             \* testimonials scraper: position of the script
    t_driver,         \* scrape_testimonials_selenium: the Chrome WebDriver
    t_quits,          \* driver.quit() calls of this scrape
    scroll_count,     \* scrape_testimonials_selenium: scroll_count
    scrolls,          \* window.scrollTo calls of this scrape
    testimonial_elements, \* scrape_testimonials_selenium: testimonial_elements
    t_idx,            \* scrape_testimonials_selenium: position of the for loop
    all_testimonials, \* scrape_testimonials_selenium: all_testimonials
    t_ret,            \* scrape_testimonials: testimonials
    script            \* the scraper script the behaviour follows

annVars == <<model, mode, pc, texts, truncated_texts, i, results, ret, calls,
             cache, ncalls>>
hVars == <<returned>>
sVars == <<s_pc, s_text, s_calls, s_ret>>
fsVars == <<fs_reviews, fs_analyzed>>
rVars == <<r_pc, r_reviews, r_printed, nruns>>
scVars == <<sc_pc, driver, quits, click_count, review_elements, e_idx,
            all_reviews, sc_ret, nscrapes>>
lVars == <<fs_products, fs_testimonials, lcache, l_pc, l_fn, l_hit, l_ret>>
pVars == <<p_pc, p_driver, p_quits, page, product_elements, p_idx, all_products>>
tVars == <<t_pc, t_driver, t_quits, scroll_count, scrolls, testimonial_elements,
           t_idx, all_testimonials, t_ret>>
kVars == <<script>>
dVars == <<d_pc, sentiments, summary, d_reviews, month_options, month_map,
           selected_month, filtered_reviews, d_summary>>

-----------------------------------------------------------------------------
(* Bounds *)

MaxTexts == 17     \* longest tuple handed to analyze_reviews
MaxCalls == 2      \* analyze_reviews invocations per behaviour
MaxSentiments == 4 \* longest list handed to get_sentiment_summary
MaxShown == 3      \* longest review collection behind the dashboard
MaxReviews == 10   \* longest reviews.json
MaxElems == 2      \* most review elements on the scraped page
MaxScrapes == 1    \* scraper processes per behaviour
MaxStored == 2     \* longest file behind the dashboard's loaders
MaxRuns == 2       \* run_analysis processes per behaviour

(* Program constants *)

MaxChars == 512    \* truncation length
BatchSize == 8     \* batch_size

-----------------------------------------------------------------------------
(* Python helpers *)

Min(a, b) == IF a < b THEN a ELSE b

\* s[lo:hi] for 0 <= lo, 0 <= hi (0-based, hi exclusive, clamped to len(s))
Slice(s, lo, hi) == SubSeq(s, lo + 1, Min(hi, Len(s)))

\* a conversion that cuts the fifth decimal off instead of rounding
Round4_Truncating(x) == (x \div 10) * 10

\* round(x, 4) on a score counted in units of 0.00001; an exact tie goes to
\* the even neighbour as Python's round does
Round4(x) ==
    LET q == x \div 10
        r == x % 10
    IN  IF r < 5 THEN q * 10
        ELSE IF r > 5 THEN (q + 1) * 10
        ELSE IF q % 2 = 0 THEN q * 10 ELSE (q + 1) * 10

-----------------------------------------------------------------------------
(* Input texts.  The character at a position depends on the position only, *)
(* so a shorter text of the pool is a prefix of every longer one.          *)

MkText(n) ==
    [k \in 1..n |-> IF k % 5 = 0 THEN " " ELSE IF k <= 512 THEN "a" ELSE "b"]

TextLens == <<3, 600, 0, 512, 513, 511, 12>>

TextPool == [k \in 1..Len(TextLens) |-> MkText(TextLens[k])]

\* the tuple of n texts that run through the pool in order
MkTexts(n) == [k \in 1..n |-> TextPool[((k - 1) % Len(TextPool)) + 1]]

TextTuples == {MkTexts(n) : n \in 0..MaxTexts}

-----------------------------------------------------------------------------
(* The pretrained classifier: opaque, deterministic, one result per string. *)
(* Three stand-ins that read different parts of the string and give the     *)
(* winning class its probability of at least 0.5, and one whose scores lie   *)
(* at the ends of [0, 1].                                                    *)

Modes == {"by_length", "by_last_char", "by_space_count", "edge_scores"}

SpaceCount(s) == Cardinality({k \in 1..Len(s) : s[k] = " "})

ClassifyLabel(m, s) ==
    CASE m = "by_length" ->
            IF Len(s) % 2 = 0 THEN "POSITIVE" ELSE "NEGATIVE"
      [] m = "by_last_char" ->
            IF Len(s) > 0 /\ s[Len(s)] = "b" THEN "NEGATIVE" ELSE "POSITIVE"
      [] m = "edge_scores" ->
            IF Len(s) % 4 = 0 THEN "POSITIVE" ELSE "NEGATIVE"
      [] OTHER ->
            IF SpaceCount(s) % 3 = 0 THEN "NEGATIVE" ELSE "POSITIVE"

\* never ends in the digit 5, so that rounding to 4 decimals has no tie
ClassifyScore(m, s) ==
    LET base == 10 * (5000 + ((Len(s) * 83) % 4999))
    IN  CASE m = "by_length" -> base + 4
          [] m = "by_last_char" -> base + 6
          [] m = "edge_scores" ->
                IF Len(s) % 4 = 0 THEN 4 ELSE IF Len(s) % 4 = 3 THEN 6 ELSE 100000
          [] OTHER -> base

ClassifyOne(m, s) == [label |-> ClassifyLabel(m, s), score |-> ClassifyScore(m, s)]

\* classifier(batch): one result per string, in order
Classifier(m, batch) == [k \in 1..Len(batch) |-> ClassifyOne(m, batch[k])]

-----------------------------------------------------------------------------
(* analysis/sentiment.py *)

\* a truncation that is skipped
Truncate_Skipped(t) == t

\* t[:512] if len(t) > 512 else t
Truncate(t) == IF Len(t) > MaxChars THEN Slice(t, 0, MaxChars) ELSE t

TruncateAll(ts) == [k \in 1..Len(ts) |-> Truncate(ts[k])]

Unknown == [label |-> "UNKNOWN", score |-> 0]

\* marks "no value returned": nothing was called yet or the call raised
NoResult == [label |-> "NONE", score |-> 0]

\* a fallback that answers for the first batch only
Fallback_FirstBatch(ts) == [k \in 1..Min(Len(ts), BatchSize) |-> Unknown]

\* [{"label": "UNKNOWN", "score": 0.0} for _ in texts]
Fallback(ts) == [k \in 1..Len(ts) |-> Unknown]

\* a result handed on as the classifier gave it
Rounded_Raw(r) == r

\* {"label": r["label"], "score": round(r["score"], 4)}
Rounded(r) == [label |-> r.label, score |-> Round4(r.score)]

RoundAll(rs) == [k \in 1..Len(rs) |-> Rounded(rs[k])]

\* a slice without its upper end: the rest of the list in one call
Batch_Unbounded(tt, idx, bs) == Slice(tt, idx, Len(tt))

\* batch = truncated_texts[i:i+batch_size]
Batch(tt, idx, bs) == Slice(tt, idx, idx + bs)

\* a step that is one short: the last text of a batch is classified again
NextIndex_Overlap(idx, bs) == idx + bs - 1

\* the next value of range(0, len, batch_size)
NextIndex(idx, bs) == idx + bs

\* load_sentiment_model under st.cache_resource: the first call builds the
\* pipeline or catches its failure and returns None; later calls return the
\* stored value
LoadOutcomes == IF model = "unloaded" THEN {"loaded", "none"} ELSE {model}

CacheKeys == {e.key : e \in cache}

\* a store that answers with the list of a time without classifier
CacheGet_Unavailable(ts) == Fallback(ts)

CacheGet(ts) == (CHOOSE e \in cache : e.key = ts).val

-----------------------------------------------------------------------------
(* analyze_reviews, one action per step of the invocation *)

\* st.cache_data finds the argument tuple: the stored list is returned and
\* the function body does not run
AnalyzeReviewsCached(ts) ==
    /\ pc = "idle" /\ s_pc = "idle"
    /\ ncalls < MaxCalls
    /\ ts \in CacheKeys
    /\ texts' = ts
    /\ truncated_texts' = <<>>
    /\ i' = 0
    /\ results' = <<>>
    /\ calls' = <<>>
    /\ ret' = CacheGet(ts)
    /\ pc' = "done"
    /\ ncalls' = ncalls + 1
    /\ UNCHANGED <<model, mode, cache>>

\* lines 76-87: load the classifier, fall back when it is None, else
\* truncate and enter the loop
AnalyzeReviewsEnter(ts) ==
    /\ pc = "idle" /\ s_pc = "idle"
    /\ ncalls < MaxCalls
    /\ ts \notin CacheKeys
    /\ texts' = ts
    /\ i' = 0
    /\ results' = <<>>
    /\ calls' = <<>>
    /\ ncalls' = ncalls + 1
    /\ \E m \in LoadOutcomes :
         /\ model' = m
         /\ IF m = "none"
              THEN /\ ret' = Fallback(ts)
                   /\ truncated_texts' = <<>>
                   /\ pc' = "done"
                   /\ cache' = cache \cup {[key |-> ts, val |-> Fallback(ts)]}
              ELSE /\ ret' = <<>>
                   /\ truncated_texts' = TruncateAll(ts)
                   /\ pc' = "loop"
                   /\ cache' = cache
    /\ UNCHANGED mode

\* a loop body whose slice is one short: the last text of a full batch is
\* never classified
AnalyzeReviewsBatch_ShortSlice ==
    /\ pc = "loop"
    /\ i < Len(truncated_texts)
    /\ LET batch == Slice(truncated_texts, i, i + BatchSize - 1)
       IN  /\ calls' = Append(calls, batch)
           /\ results' = results \o Classifier(mode, batch)
    /\ i' = NextIndex(i, BatchSize)
    /\ UNCHANGED <<model, mode, pc, texts, truncated_texts, ret, cache, ncalls>>

\* lines 88-91, the classifier returns
AnalyzeReviewsBatch ==
    /\ pc = "loop"
    /\ i < Len(truncated_texts)
    /\ LET batch == Batch(truncated_texts, i, BatchSize)
       IN  /\ calls' = Append(calls, batch)
           /\ results' = results \o Classifier(mode, batch)
    /\ i' = NextIndex(i, BatchSize)
    /\ UNCHANGED <<model, mode, pc, texts, truncated_texts, ret, cache, ncalls>>

\* line 90, the classifier raises: nothing in analyze_reviews catches it, the
\* exception leaves the function and st.cache_data stores nothing
AnalyzeReviewsRaise ==
    /\ pc = "loop"
    /\ i < Len(truncated_texts)
    /\ calls' = Append(calls, Batch(truncated_texts, i, BatchSize))
    /\ pc' = "raised"
    /\ UNCHANGED <<model, mode, texts, truncated_texts, i, results, ret, cache,
                   ncalls>>

\* lines 93-99, the loop is exhausted
AnalyzeReviewsReturn ==
    /\ pc = "loop"
    /\ i >= Len(truncated_texts)
    /\ ret' = RoundAll(results)
    /\ pc' = "done"
    /\ cache' = cache \cup {[key |-> texts, val |-> RoundAll(results)]}
    /\ UNCHANGED <<model, mode, texts, truncated_texts, i, results, calls, ncalls>>

\* the caller has taken the result (or the exception); locals are gone
AnalyzeReviewsExit ==
    /\ pc \in {"done", "raised"}
    /\ pc' = "idle"
    /\ texts' = <<>>
    /\ truncated_texts' = <<>>
    /\ i' = 0
    /\ results' = <<>>
    /\ ret' = <<>>
    /\ calls' = <<>>
    /\ UNCHANGED <<model, mode, cache, ncalls>>

\* ttl=3600: the stored entries expire
CacheExpire ==
    /\ pc = "idle"
    /\ cache # {}
    /\ cache' = {}
    /\ UNCHANGED <<model, mode, pc, texts, truncated_texts, i, results, ret,
                   calls, ncalls>>

\* lines 93-99 and the cached return: every list handed to a caller is kept,
\* with the tuple it answers, the classifier slot and whether the cache
\* served it
Observed ==
    returned' = IF pc # "done" /\ pc' = "done"
                  THEN Append(returned, [key |-> texts', model |-> model',
                                         hit |-> pc = "idle" /\ texts' \in CacheKeys,
                                         val |-> ret'])
                  ELSE returned

-----------------------------------------------------------------------------
(* analyze_sentiment, the single-text variant *)

AnalyzeSentiment(t) ==
    /\ pc = "idle" /\ s_pc = "idle"
    /\ s_text' = t
    /\ \E m \in LoadOutcomes :
         /\ model' = m
         /\ IF m = "none"
              THEN /\ s_calls' = <<>>
                   /\ s_ret' = Unknown
                   /\ s_pc' = "done"
              ELSE /\ s_calls' = <<Truncate(t)>>
                   /\ \/ /\ s_ret' = Rounded(Classifier(mode, <<Truncate(t)>>)[1])
                         /\ s_pc' = "done"
                      \/ /\ s_ret' = NoResult
                         /\ s_pc' = "raised"
    /\ UNCHANGED <<mode, pc, texts, truncated_texts, i, results, ret, calls,
                   cache, ncalls>>

AnalyzeSentimentExit ==
    /\ s_pc \in {"done", "raised"}
    /\ s_pc' = "idle"
    /\ s_text' = <<>>
    /\ s_calls' = <<>>
    /\ s_ret' = NoResult
    /\ UNCHANGED annVars

-----------------------------------------------------------------------------
(* lines 82-99 of analyze_reviews with the batch size as a parameter *)

RECURSIVE ResultsFrom(_, _, _, _)
ResultsFrom(m, tt, idx, bs) ==
    IF idx >= Len(tt) THEN <<>>
    ELSE Classifier(m, Batch(tt, idx, bs)) \o ResultsFrom(m, tt, NextIndex(idx, bs), bs)

AnalyzeWithBatchSize(m, ts, bs) == RoundAll(ResultsFrom(m, TruncateAll(ts), 0, bs))

\* one classifier call on all the truncated texts
AnalyzeInOneBatch(m, ts) == RoundAll(Classifier(m, TruncateAll(ts)))

-----------------------------------------------------------------------------
(* get_sentiment_summary (analysis/sentiment.py) *)

RECURSIVE SumScores(_)
SumScores(ss) == IF ss = <<>> THEN 0 ELSE Head(ss).score + SumScores(Tail(ss))

\* round(total / n, 4) for n > 0, the quotient taken exactly
RoundDiv4(total, n) ==
    LET q == total \div (10 * n)
        r == total % (10 * n)
    IN  IF 2 * r < 10 * n THEN q * 10
        ELSE IF 2 * r > 10 * n THEN (q + 1) * 10
        ELSE IF q % 2 = 0 THEN q * 10 ELSE (q + 1) * 10

\* an empty subset whose mean defaults to 1.0
MeanConfidence_FullDefault(ss) ==
    IF Len(ss) > 0 THEN RoundDiv4(SumScores(ss), Len(ss)) ELSE 100000

\* round(sum(...) / count if count > 0 else 0.0, 4)
MeanConfidence(ss) ==
    IF Len(ss) > 0 THEN RoundDiv4(SumScores(ss), Len(ss)) ELSE Round4(0)

WithLabel(ss, l) == SelectSeq(ss, LAMBDA x : x.label = l)

EmptySummary ==
    [positive_count |-> 0, negative_count |-> 0,
     positive_avg_confidence |-> 0, negative_avg_confidence |-> 0,
     total |-> 0]

\* a summary that takes every record that is not positive for a negative one
GetSentimentSummary_RestNegative(ss) ==
    IF ss = <<>> THEN EmptySummary
    ELSE [positive_count |-> Len(WithLabel(ss, "POSITIVE")),
          negative_count |-> Len(ss) - Len(WithLabel(ss, "POSITIVE")),
          positive_avg_confidence |-> MeanConfidence(WithLabel(ss, "POSITIVE")),
          negative_avg_confidence |->
              MeanConfidence(SelectSeq(ss, LAMBDA x : x.label # "POSITIVE")),
          total |-> Len(ss)]

\* a summary whose total counts the labelled records only
GetSentimentSummary_LabelledTotal(ss) ==
    IF ss = <<>> THEN EmptySummary
    ELSE [positive_count |-> Len(WithLabel(ss, "POSITIVE")),
          negative_count |-> Len(WithLabel(ss, "NEGATIVE")),
          positive_avg_confidence |-> MeanConfidence(WithLabel(ss, "POSITIVE")),
          negative_avg_confidence |-> MeanConfidence(WithLabel(ss, "NEGATIVE")),
          total |-> Len(WithLabel(ss, "POSITIVE")) + Len(WithLabel(ss, "NEGATIVE"))]

GetSentimentSummary(ss) ==
    IF ss = <<>> THEN EmptySummary
    ELSE LET positive == WithLabel(ss, "POSITIVE")
             negative == WithLabel(ss, "NEGATIVE")
         IN  [positive_count |-> Len(positive),
              negative_count |-> Len(negative),
              positive_avg_confidence |-> MeanConfidence(positive),
              negative_avg_confidence |-> MeanConfidence(negative),
              total |-> Len(ss)]

-----------------------------------------------------------------------------
(* app.py: months, filtering and the summary of display_reviews.  A date *)
(* is a sequence of characters like a text; a record is a function from   *)
(* its field names, so that a missing field is a name outside its domain. *)

\* d.get(f, dflt)
Get(d, f, dflt) == IF f \in DOMAIN d THEN d[f] ELSE dflt

\* code points of the characters that occur in dates
CharCode ==
    ("-" :> 45) @@ ("/" :> 47) @@
    ("0" :> 48) @@ ("1" :> 49) @@ ("2" :> 50) @@ ("3" :> 51) @@ ("4" :> 52) @@
    ("5" :> 53) @@ ("6" :> 54) @@ ("7" :> 55) @@ ("8" :> 56) @@ ("9" :> 57)

\* a < b for Python strings
RECURSIVE StrLess(_, _)
StrLess(a, b) ==
    IF a = <<>> THEN b # <<>>
    ELSE IF b = <<>> THEN FALSE
    ELSE IF Head(a) = Head(b) THEN StrLess(Tail(a), Tail(b))
    ELSE CharCode[Head(a)] < CharCode[Head(b)]

\* sorted(list(S)) for a set of strings
RECURSIVE SortedList(_)
SortedList(S) ==
    IF S = {} THEN <<>>
    ELSE LET least == CHOOSE x \in S : \A y \in S \ {x} : StrLess(x, y)
         IN  <<least>> \o SortedList(S \ {least})

\* s.startswith(prefix)
StartsWith(s, prefix) ==
    /\ Len(prefix) <= Len(s)
    /\ SubSeq(s, 1, Len(prefix)) = prefix

MonthNames ==
    (<<"0", "1">> :> <<"J", "a", "n">>) @@ (<<"0", "2">> :> <<"F", "e", "b">>) @@
    (<<"0", "3">> :> <<"M", "a", "r">>) @@ (<<"0", "4">> :> <<"A", "p", "r">>) @@
    (<<"0", "5">> :> <<"M", "a", "y">>) @@ (<<"0", "6">> :> <<"J", "u", "n">>) @@
    (<<"0", "7">> :> <<"J", "u", "l">>) @@ (<<"0", "8">> :> <<"A", "u", "g">>) @@
    (<<"0", "9">> :> <<"S", "e", "p">>) @@ (<<"1", "0">> :> <<"O", "c", "t">>) @@
    (<<"1", "1">> :> <<"N", "o", "v">>) @@ (<<"1", "2">> :> <<"D", "e", "c">>)

\* f"{month_names.get(month_num, month_num)} {year}"
MonthLabel(month_key) ==
    LET year == Slice(month_key, 0, 4)
        month_num == Slice(month_key, 5, 7)
    IN  Get(MonthNames, month_num, month_num) \o <<" ">> \o year

\* lines 222-227: the set of month keys
MonthKeys(reviews) ==
    {Slice(Get(reviews[k], "date", <<>>), 0, 7) :
        k \in {j \in 1..Len(reviews) :
                 LET date_str == Get(reviews[j], "date", <<>>)
                 IN  date_str # <<>> /\ Len(date_str) >= 7}}

\* lines 220-249; a label that is assigned twice keeps its last month key
GetAvailableMonths(reviews) ==
    LET sorted_months == SortedList(MonthKeys(reviews))
        options == [k \in 1..Len(sorted_months) |-> MonthLabel(sorted_months[k])]
        Last(l) == CHOOSE k \in 1..Len(options) :
                      /\ options[k] = l
                      /\ \A j \in 1..Len(options) : options[j] = l => j <= k
    IN  [month_options |-> options,
         month_map |-> [l \in {options[k] : k \in 1..Len(options)} |->
                           sorted_months[Last(l)]]]

\* a filter that lets a record without a date through
FilterReviewsByMonth_UndatedKept(reviews, month_key) ==
    SelectSeq(reviews, LAMBDA r :
        "date" \notin DOMAIN r \/ StartsWith(Get(r, "date", <<>>), month_key))

\* lines 252-259
FilterReviewsByMonth(reviews, month_key) ==
    SelectSeq(reviews, LAMBDA r : StartsWith(Get(r, "date", <<>>), month_key))

RECURSIVE SumConfidence(_)
SumConfidence(rs) ==
    IF rs = <<>> THEN 0
    ELSE Get(Head(rs), "confidence", 0) + SumConfidence(Tail(rs))

\* sum(...) / len(xs) if xs else 0, kept as the exact quotient num / den
MeanOrZero(rs) ==
    IF rs # <<>> THEN [num |-> SumConfidence(rs), den |-> Len(rs)]
    ELSE [num |-> 0, den |-> 1]

WithSentiment(rs, l) == SelectSeq(rs, LAMBDA r : Get(r, "sentiment", "None") = l)

\* a summary that counts every record that is not POSITIVE as negative
DashSummary_RestNegative(filtered) ==
    LET positive == WithSentiment(filtered, "POSITIVE")
        negative == SelectSeq(filtered,
                              LAMBDA r : Get(r, "sentiment", "None") # "POSITIVE")
    IN  [positive_count |-> Len(positive),
         negative_count |-> Len(negative),
         positive_avg_confidence |-> MeanOrZero(positive),
         negative_avg_confidence |-> MeanOrZero(negative)]

\* lines 417-426
DashSummary(filtered) ==
    LET positive == WithSentiment(filtered, "POSITIVE")
        negative == WithSentiment(filtered, "NEGATIVE")
    IN  [positive_count |-> Len(positive),
         negative_count |-> Len(negative),
         positive_avg_confidence |-> MeanOrZero(positive),
         negative_avg_confidence |-> MeanOrZero(negative)]

\* lists handed to get_sentiment_summary.  The scores are multiples of
\* 0.0004: no mean of up to five of them lies halfway between two 4-digit
\* values, where round() would follow the binary representation
SentimentPool ==
    {[label |-> "POSITIVE", score |-> 99000],
     [label |-> "NEGATIVE", score |-> 95000],
     [label |-> "UNKNOWN", score |-> 0],
     [label |-> "POSITIVE", score |-> 80040],
     [label |-> "NEGATIVE", score |-> 33320]}

SentimentLists == UNION {[1..n -> SentimentPool] : n \in 0..MaxSentiments}

Date(sep, mm, dd) == <<"2", "0", "2", "3", sep>> \o mm \o <<sep>> \o dd

\* reviews behind the dashboard: ISO dates, a date the scraper's parse_date
\* passed through unparsed, a short date, a raw record without date,
\* sentiment and confidence, and two POSITIVE reviews of one month with
\* different confidences
ShownPool ==
    {[text |-> MkText(12), date |-> Date("-", <<"0", "1">>, <<"0", "5">>),
      rating |-> 5, sentiment |-> "POSITIVE", confidence |-> 99000],
     [text |-> MkText(3), date |-> Date("-", <<"0", "1">>, <<"0", "6">>),
      rating |-> 1, sentiment |-> "NEGATIVE", confidence |-> 95000],
     [text |-> MkText(12), date |-> Date("-", <<"0", "2">>, <<"1", "1">>),
      rating |-> 4, sentiment |-> "POSITIVE", confidence |-> 80040],
     [text |-> MkText(12), date |-> Date("/", <<"0", "1">>, <<"0", "5">>),
      rating |-> 2, sentiment |-> "NEGATIVE", confidence |-> 33320],
     [text |-> MkText(12), date |-> <<"2", "0", "2", "3">>,
      rating |-> 3, sentiment |-> "UNKNOWN", confidence |-> 0],
     [text |-> MkText(12), rating |-> 5],
     [text |-> MkText(12), date |-> Date("-", <<"0", "2">>, <<"2", "0">>),
      rating |-> 3, sentiment |-> "UNKNOWN", confidence |-> 0],
     [text |-> MkText(12), date |-> Date("-", <<"0", "1">>, <<"0", "7">>),
      rating |-> 4, sentiment |-> "POSITIVE", confidence |-> 98000]}

ShownCollections == UNION {[1..n -> ShownPool] : n \in 0..MaxShown}

\* a file of the data directory
Missing == [exists |-> FALSE, data |-> <<>>]
File(content) == [exists |-> TRUE, data |-> content]

NoSummary == [positive_count |-> 0, negative_count |-> 0,
              positive_avg_confidence |-> [num |-> 0, den |-> 1],
              negative_avg_confidence |-> [num |-> 0, den |-> 1]]

NoMonths == [month_options |-> <<>>, month_map |-> <<>>]

\* a loader that prefers the raw file
LoadReviews_RawFirst(analyzed, raw) ==
    IF raw.exists THEN raw.data
    ELSE IF analyzed.exists THEN analyzed.data
    ELSE <<>>

\* lines 191-206 without the cache: reviews_analyzed.json when it exists,
\* otherwise reviews.json, otherwise the empty list
LoadReviews(analyzed, raw) ==
    IF analyzed.exists THEN analyzed.data
    ELSE IF raw.exists THEN raw.data
    ELSE <<>>

\* one run of main() on the Reviews page followed by display_reviews:
\* reviews is what load_reviews returned, choice the position the month
\* slider is left on
DisplayReviews(reviews, choice) ==
    /\ d_pc = "idle"
    /\ LET months == IF reviews = <<>> THEN NoMonths ELSE GetAvailableMonths(reviews)
           options == months.month_options
           chosen == IF choice \in 1..Len(options) THEN options[choice] ELSE <<>>
           month_key == Get(months.month_map, chosen, <<>>)
           filtered == IF options = <<>> THEN <<>>
                       ELSE FilterReviewsByMonth(reviews, month_key)
       IN  /\ choice \in 1..Len(options) \/ (options = <<>> /\ choice = 0)
           /\ d_reviews' = reviews
           /\ month_options' = options
           /\ month_map' = months.month_map
           /\ selected_month' = chosen
           /\ filtered_reviews' = filtered
           /\ d_summary' = IF filtered = <<>> THEN NoSummary ELSE DashSummary(filtered)
           /\ d_pc' = IF reviews = <<>> THEN "no_reviews"
                      ELSE IF options = <<>> THEN "no_dated_reviews"
                      ELSE IF filtered = <<>> THEN "no_reviews_for_month"
                      ELSE "shown"
    /\ UNCHANGED <<sentiments, summary>>

\* a summary that drops the UNKNOWN records from the list it was handed
SummaryCall_Consuming(ss) ==
    /\ d_pc = "idle"
    /\ sentiments' = SelectSeq(ss, LAMBDA s : s.label # "UNKNOWN")
    /\ summary' = GetSentimentSummary(ss)
    /\ d_pc' = "summary"
    /\ UNCHANGED <<d_reviews, month_options, month_map, selected_month,
                   filtered_reviews, d_summary>>

\* a call of get_sentiment_summary
SummaryCall(ss) ==
    /\ d_pc = "idle"
    /\ sentiments' = ss
    /\ summary' = GetSentimentSummary(ss)
    /\ d_pc' = "summary"
    /\ UNCHANGED <<d_reviews, month_options, month_map, selected_month,
                   filtered_reviews, d_summary>>

\* an annotated review read as a classifier result: run_analysis stores
\* the label as 'sentiment' and the score as 'confidence'
AsSentiment(r) == [label |-> r.sentiment, score |-> r.confidence]

AsSentiments(rs) == [k \in 1..Len(rs) |-> AsSentiment(rs[k])]

IsAnnotated(r) == {"sentiment", "confidence"} \subseteq DOMAIN r

\* get_sentiment_summary called on the records display_reviews has just
\* summarised; s["label"] and s["score"] need every record annotated
SummaryOfShown ==
    /\ d_pc = "shown"
    /\ \A k \in 1..Len(filtered_reviews) : IsAnnotated(filtered_reviews[k])
    /\ sentiments' = AsSentiments(filtered_reviews)
    /\ summary' = GetSentimentSummary(AsSentiments(filtered_reviews))
    /\ d_pc' = "compared"
    /\ UNCHANGED <<d_reviews, month_options, month_map, selected_month,
                   filtered_reviews, d_summary>>

\* the script run is over
DashExit ==
    /\ d_pc # "idle"
    /\ d_pc' = "idle"
    /\ sentiments' = <<>>
    /\ summary' = EmptySummary
    /\ d_reviews' = <<>>
    /\ month_options' = <<>>
    /\ month_map' = <<>>
    /\ selected_month' = <<>>
    /\ filtered_reviews' = <<>>
    /\ d_summary' = NoSummary

-----------------------------------------------------------------------------
(* analysis/run_analysis.py.  The script is its own process: the model   *)
(* slot and the cache of analyze_reviews start empty in every run, the     *)
(* files stay.                                                             *)

\* records of reviews.json: scraped reviews, one without text, one without
\* date
RunPool ==
    <<[text |-> TextPool[1], date |-> Date("-", <<"0", "1">>, <<"0", "5">>), rating |-> 5],
      [text |-> TextPool[2], date |-> Date("-", <<"0", "1">>, <<"0", "6">>), rating |-> 1],
      [date |-> Date("-", <<"0", "2">>, <<"1", "1">>), rating |-> 4],
      [text |-> TextPool[4], date |-> Date("/", <<"0", "1">>, <<"0", "5">>), rating |-> 2],
      [text |-> TextPool[5], rating |-> 3],
      [text |-> TextPool[6], date |-> Date("-", <<"0", "2">>, <<"2", "0">>), rating |-> 3],
      [text |-> TextPool[7], date |-> <<"2", "0", "2", "3">>, rating |-> 5]>>

MkReviews(n) == [k \in 1..n |-> RunPool[((k - 1) % Len(RunPool)) + 1]]

ReviewFiles == {MkReviews(n) : n \in 0..MaxReviews}

\* tuple(r.get('text', '') for r in reviews)
TextsOf(reviews) == [k \in 1..Len(reviews) |-> Get(reviews[k], "text", <<>>)]

\* a merge that builds a new record from the text and the result only
Annotated_TextAndResultOnly(review, s) ==
    [f \in (DOMAIN review \cap {"text"}) \cup {"sentiment", "confidence"} |->
        IF f = "sentiment" THEN s.label
        ELSE IF f = "confidence" THEN s.score
        ELSE review[f]]

\* review['sentiment'] = s['label']; review['confidence'] = s['score']
Annotated(review, s) ==
    [f \in DOMAIN review \cup {"sentiment", "confidence"} |->
        IF f = "sentiment" THEN s.label
        ELSE IF f = "confidence" THEN s.score
        ELSE review[f]]

\* lines 44-47
Merge(reviews, ss) == [k \in 1..Len(reviews) |-> Annotated(reviews[k], ss[k])]

\* lines 57-58: the counts under "SENTIMENT ANALYSIS COMPLETE"
PrintedSummary(reviews) ==
    LET positive == Len(SelectSeq(reviews, LAMBDA r : r.sentiment = "POSITIVE"))
    IN  [total |-> Len(reviews),
         positive |-> positive,
         negative |-> Len(reviews) - positive]

NothingPrinted == [total |-> 0, positive |-> 0, negative |-> 0]

\* lines 22-35: open and read reviews.json; a missing file raises
\* FileNotFoundError out of run_analysis, an empty array returns early
RunLoad ==
    /\ r_pc = "idle"
    /\ nruns < MaxRuns
    /\ IF ~fs_reviews.exists
         THEN /\ r_pc' = "raised"
              /\ r_reviews' = <<>>
         ELSE /\ r_reviews' = fs_reviews.data
              /\ r_pc' = IF fs_reviews.data = <<>> THEN "no_reviews" ELSE "loaded"
    /\ UNCHANGED <<r_printed, nruns, fsVars, annVars>>

\* lines 41-42: the call of analyze_reviews; the cache of this process is
\* empty, the body runs
RunAnalyze ==
    /\ r_pc = "loaded"
    /\ AnalyzeReviewsEnter(TextsOf(r_reviews))
    /\ r_pc' = "analyzing"
    /\ UNCHANGED <<r_reviews, r_printed, nruns, fsVars>>

\* the exception of the classifier leaves run_analysis
RunFail ==
    /\ r_pc = "analyzing"
    /\ pc = "raised"
    /\ r_pc' = "raised"
    /\ UNCHANGED <<r_reviews, r_printed, nruns, fsVars, annVars>>

\* lines 44-65: merge, write reviews_analyzed.json, print the summary
RunFinish ==
    /\ r_pc = "analyzing"
    /\ pc = "done"
    /\ r_reviews' = Merge(r_reviews, ret)
    /\ fs_analyzed' = File(Merge(r_reviews, ret))
    /\ r_printed' = PrintedSummary(Merge(r_reviews, ret))
    /\ r_pc' = "finished"
    /\ UNCHANGED <<nruns, fs_reviews, annVars>>

\* the process ends
RunExit ==
    /\ r_pc \in {"raised", "no_reviews", "finished"}
    /\ r_pc' = "idle"
    /\ r_reviews' = <<>>
    /\ r_printed' = NothingPrinted
    /\ nruns' = nruns + 1
    /\ model' = "unloaded"
    /\ cache' = {}
    /\ ncalls' = 0
    /\ pc' = "idle"
    /\ texts' = <<>>
    /\ truncated_texts' = <<>>
    /\ i' = 0
    /\ results' = <<>>
    /\ ret' = <<>>
    /\ calls' = <<>>
    /\ UNCHANGED <<mode, fsVars>>

\* between two runs the scraper's save_reviews rewrites reviews.json
SaveReviews(content) ==
    /\ r_pc = "idle"
    /\ fs_reviews # File(content)
    /\ fs_reviews' = File(content)
    /\ UNCHANGED <<fs_analyzed, rVars, annVars>>

-----------------------------------------------------------------------------
(* scraper/reviews_scraper.py: the pure part *)

Digits == {"0", "1", "2", "3", "4", "5", "6", "7", "8", "9"}

DigitVal(c) == CharCode[c] - 48

DigitChar(n) == CHOOSE c \in Digits : DigitVal(c) = n

IsDigits(s) == \A k \in 1..Len(s) : s[k] \in Digits

\* int(s) for a string of digits
RECURSIVE NumVal(_)
NumVal(s) ==
    IF s = <<>> THEN 0
    ELSE 10 * NumVal(SubSeq(s, 1, Len(s) - 1)) + DigitVal(s[Len(s)])

\* s.strip(), the blank being the only whitespace of the pages
RECURSIVE Strip(_)
Strip(s) ==
    IF s = <<>> THEN s
    ELSE IF Head(s) = " " THEN Strip(Tail(s))
    ELSE IF s[Len(s)] = " " THEN Strip(SubSeq(s, 1, Len(s) - 1))
    ELSE s

\* s.split(c)
RECURSIVE SplitOn(_, _)
SplitOn(s, c) ==
    IF \A k \in 1..Len(s) : s[k] # c THEN <<s>>
    ELSE LET p == CHOOSE k \in 1..Len(s) : s[k] = c /\ \A j \in 1..(k - 1) : s[j] # c
         IN  <<SubSeq(s, 1, p - 1)>> \o SplitOn(SubSeq(s, p + 1, Len(s)), c)

\* the days of a month of the proleptic Gregorian calendar
DaysIn(y, m) ==
    IF m \in {4, 6, 9, 11} THEN 30
    ELSE IF m = 2
      THEN IF (y % 4 = 0 /\ y % 100 # 0) \/ y % 400 = 0 THEN 29 ELSE 28
    ELSE 31

TwoDigits(n) == <<DigitChar(n \div 10), DigitChar(n % 10)>>

FourDigits(n) == TwoDigits(n \div 100) \o TwoDigits(n % 100)

\* lines 40-47: strptime(date_str.strip(), '%Y-%m-%d') takes a 4-digit year,
\* a month and a day of 1 or 2 digits that name a day of the calendar, and
\* strftime writes them zero-padded; anything else comes back as it was
\* handed in
ParseDate(date_str) ==
    LET parts == SplitOn(Strip(date_str), "-")
        wellFormed ==
            /\ Len(parts) = 3
            /\ \A p \in 1..3 : parts[p] # <<>> /\ IsDigits(parts[p])
            /\ Len(parts[1]) = 4
            /\ Len(parts[2]) <= 2
            /\ Len(parts[3]) <= 2
        y == NumVal(parts[1])
        m == NumVal(parts[2])
        d == NumVal(parts[3])
    IN  IF wellFormed /\ y >= 1 /\ m \in 1..12 /\ d \in 1..DaysIn(y, m)
          THEN FourDigits(y) \o <<"-">> \o TwoDigits(m) \o <<"-">> \o TwoDigits(d)
          ELSE date_str

\* r'\d{4}-\d{2}-\d{2}' matches at position p of s
IsDateAt(s, p) ==
    /\ p + 9 <= Len(s)
    /\ \A k \in {0, 1, 2, 3, 5, 6, 8, 9} : s[p + k] \in Digits
    /\ s[p + 4] = "-"
    /\ s[p + 7] = "-"

\* line 108-109: the first match of the pattern, the empty string standing
\* for None (both are skipped at line 111)
DateMatch(s) ==
    IF \E p \in 1..Len(s) : IsDateAt(s, p)
      THEN LET p == CHOOSE q \in 1..Len(s) :
                       IsDateAt(s, q) /\ \A j \in 1..(q - 1) : ~IsDateAt(s, j)
           IN  SubSeq(s, p, p + 9)
      ELSE <<>>

\* line 120: re.sub(r'\d{4}-\d{2}-\d{2}', '', s)
RECURSIVE RemoveDates(_)
RemoveDates(s) ==
    IF \E p \in 1..Len(s) : IsDateAt(s, p)
      THEN LET p == CHOOSE q \in 1..Len(s) :
                       IsDateAt(s, q) /\ \A j \in 1..(q - 1) : ~IsDateAt(s, j)
           IN  SubSeq(s, 1, p - 1) \o RemoveDates(SubSeq(s, p + 10, Len(s)))
      ELSE s

-----------------------------------------------------------------------------
(* scraper/reviews_scraper.py: one scrape, step by step *)

MaxClicks == 10

ISODate(mm, dd) == Date("-", mm, dd)

\* the .review elements a page can hold; an element without date_elem or
\* text_elem raises NoSuchElementException at lines 104 and 116, a stale one
\* raises at its first use
ElemPool ==
    {[stale |-> FALSE, review_text |-> ISODate(<<"0", "1">>, <<"0", "5">>) \o <<" ">> \o MkText(12),
      date_elem |-> ISODate(<<"0", "1">>, <<"0", "5">>), text_elem |-> MkText(12),
      stars |-> 3, svgs |-> 3],
     [stale |-> FALSE, review_text |-> Date("/", <<"0", "1">>, <<"0", "5">>) \o <<" ">> \o MkText(12),
      date_elem |-> Date("/", <<"0", "1">>, <<"0", "5">>), text_elem |-> MkText(12),
      stars |-> 0, svgs |-> 0],
     [stale |-> FALSE, review_text |-> <<"2", "0", "2", "3", "-", "1", "-", "5", " ">> \o MkText(12),
      date_elem |-> <<"2", "0", "2", "3", "-", "1", "-", "5">>, text_elem |-> MkText(12),
      stars |-> 6, svgs |-> 6],
     [stale |-> FALSE, review_text |-> <<"2", "0", "2", "2", "-", "1", "2", "-", "3", "1", " ">> \o MkText(12),
      stars |-> 0, svgs |-> 2],
     [stale |-> FALSE, review_text |-> MkText(12),
      date_elem |-> <<>>, text_elem |-> MkText(12), stars |-> 4, svgs |-> 4],
     [stale |-> FALSE, review_text |-> ISODate(<<"0", "2">>, <<"1", "1">>) \o <<" ">> \o MkText(3),
      date_elem |-> ISODate(<<"0", "2">>, <<"1", "1">>), text_elem |-> MkText(3),
      stars |-> 1, svgs |-> 1],
     [stale |-> TRUE, review_text |-> <<>>, stars |-> 0, svgs |-> 0]}

Pages == UNION {[1..n -> ElemPool] : n \in 0..MaxElems}

\* lines 98-139 for one element: the reviews it appends to all_reviews
ParseElement(review_elem) ==
    LET review_text == Strip(review_elem.review_text)
        date == IF "date_elem" \in DOMAIN review_elem
                  THEN Strip(review_elem.date_elem)
                  ELSE DateMatch(review_text)
        text == IF "text_elem" \in DOMAIN review_elem
                  THEN Strip(review_elem.text_elem)
                  ELSE Strip(RemoveDates(review_text))
        star_svgs == IF review_elem.stars > 0 THEN review_elem.stars ELSE review_elem.svgs
        rating == IF star_svgs > 0 THEN star_svgs ELSE 5
    IN  IF review_elem.stale THEN <<>>
        ELSE IF date = <<>> THEN <<>>
        ELSE IF text # <<>> /\ Len(text) > 10
          THEN <<[text |-> text, date |-> ParseDate(date), rating |-> rating]>>
        ELSE <<>>

\* line 154: only the reviews whose date starts with 2023
Keep2023(reviews) ==
    SelectSeq(reviews, LAMBDA r : StartsWith(Get(r, "date", <<>>), <<"2", "0", "2", "3">>))

\* lines 52-53: get_driver() starts Chrome or raises
ScrapeStart ==
    /\ sc_pc = "idle"
    /\ nscrapes < MaxScrapes
    /\ all_reviews' = <<>>
    /\ \/ driver' = "open" /\ sc_pc' = "navigate"
       \/ driver' = "none" /\ sc_pc' = "failed"
    /\ UNCHANGED <<quits, click_count, review_elements, e_idx, sc_ret, nscrapes, fsVars>>

\* lines 57-66: load the page and wait for the first .review element; the
\* wait raises TimeoutException when none appears
Navigate ==
    /\ sc_pc = "navigate"
    /\ click_count' = 0
    /\ sc_pc' \in {"loading", "finally_raised"}
    /\ UNCHANGED <<driver, quits, review_elements, e_idx, all_reviews, sc_ret,
                   nscrapes, fsVars>>

\* lines 68-83: one click on "Load More"
ClickLoadMore ==
    /\ sc_pc = "loading"
    /\ click_count < MaxClicks
    /\ click_count' = click_count + 1
    /\ UNCHANGED <<sc_pc, driver, quits, review_elements, e_idx, all_reviews,
                   sc_ret, nscrapes, fsVars>>

\* lines 68, 85-90, 94: the loop ends (limit reached, no button within 3 s,
\* or another exception of the click) and find_elements lists the page, or
\* raises; click_count is not read again
FindElements ==
    /\ sc_pc = "loading"
    /\ click_count' = 0
    /\ e_idx' = 0
    /\ \/ \E elems \in Pages : review_elements' = elems /\ sc_pc' = "parsing"
       \/ review_elements' = <<>> /\ sc_pc' = "finally_raised"
    /\ UNCHANGED <<driver, quits, all_reviews, sc_ret, nscrapes, fsVars>>

\* lines 97-139: one pass of the for loop
ParseNext ==
    /\ sc_pc = "parsing"
    /\ e_idx < Len(review_elements)
    /\ all_reviews' = all_reviews \o ParseElement(review_elements[e_idx + 1])
    /\ e_idx' = e_idx + 1
    /\ UNCHANGED <<sc_pc, driver, quits, click_count, review_elements, sc_ret,
                   nscrapes, fsVars>>

\* the for loop is over
ParseDone ==
    /\ sc_pc = "parsing"
    /\ e_idx = Len(review_elements)
    /\ sc_pc' = "finally"
    /\ UNCHANGED <<driver, quits, click_count, review_elements, e_idx, all_reviews,
                   sc_ret, nscrapes, fsVars>>

\* lines 141-144: driver.quit() in the finally block, then the return or the
\* exception that was under way
Quit ==
    /\ sc_pc \in {"finally", "finally_raised"}
    /\ driver' = "quit"
    /\ quits' = quits + 1
    /\ sc_pc' = IF sc_pc = "finally" THEN "returned" ELSE "failed"
    /\ UNCHANGED <<click_count, review_elements, e_idx, all_reviews, sc_ret,
                   nscrapes, fsVars>>

\* lines 152-159: scrape_reviews keeps the 2023 reviews, or catches the
\* exception and returns the empty list
ScrapeReturn ==
    /\ sc_pc \in {"returned", "failed"}
    /\ sc_ret' = IF sc_pc = "returned" THEN Keep2023(all_reviews) ELSE <<>>
    /\ sc_pc' = "scraped"
    /\ UNCHANGED <<driver, quits, click_count, review_elements, e_idx, all_reviews,
                   nscrapes, fsVars>>

\* lines 175-176 and 162-167: the script saves what scrape_reviews returned
\* and ends
ScrapeSave ==
    /\ sc_pc = "scraped"
    /\ fs_reviews' = File(sc_ret)
    /\ sc_pc' = "idle"
    /\ driver' = "none"
    /\ quits' = 0
    /\ click_count' = 0
    /\ review_elements' = <<>>
    /\ e_idx' = 0
    /\ all_reviews' = <<>>
    /\ sc_ret' = <<>>
    /\ nscrapes' = nscrapes + 1
    /\ UNCHANGED fs_analyzed

-----------------------------------------------------------------------------
(* app.py: the three cached loaders and the scripts that write their files *)

Loaders == {"reviews", "products", "testimonials"}

NoEntry == [valid |-> FALSE, val |-> <<>>]

Entry(v) == [valid |-> TRUE, val |-> v]

\* lines 180-188
LoadProducts(file) == IF file.exists THEN file.data ELSE <<>>

\* lines 209-217
LoadTestimonials(file) == IF file.exists THEN file.data ELSE <<>>

\* the body of a loader on the files as they are
LoadBody(fn) ==
    CASE fn = "reviews" -> LoadReviews(fs_analyzed, fs_reviews)
      [] fn = "products" -> LoadProducts(fs_products)
      [] OTHER -> LoadTestimonials(fs_testimonials)

\* a call of a loader under st.cache_data(ttl=3600): an unexpired entry is
\* returned as it is, otherwise the body runs and its value is stored
LoadCall(fn) ==
    /\ l_pc = "idle"
    /\ l_fn' = fn
    /\ l_hit' = lcache[fn].valid
    /\ l_ret' = IF lcache[fn].valid THEN lcache[fn].val ELSE LoadBody(fn)
    /\ lcache' = IF lcache[fn].valid THEN lcache
                 ELSE [lcache EXCEPT ![fn] = Entry(LoadBody(fn))]
    /\ l_pc' = "returned"
    /\ UNCHANGED <<fs_products, fs_testimonials, fsVars>>

LoadExit ==
    /\ l_pc = "returned"
    /\ l_pc' = "idle"
    /\ l_fn' = "none"
    /\ l_hit' = FALSE
    /\ l_ret' = <<>>
    /\ UNCHANGED <<fs_products, fs_testimonials, lcache, fsVars>>

\* ttl=3600: the entry of a loader is an hour old
LoadCacheExpire(fn) ==
    /\ l_pc = "idle"
    /\ lcache[fn].valid
    /\ lcache' = [lcache EXCEPT ![fn] = NoEntry]
    /\ UNCHANGED <<fs_products, fs_testimonials, l_pc, l_fn, l_hit, l_ret, fsVars>>

\* what the scrapers and run_analysis leave in the data directory
StoredReviews == {MkReviews(n) : n \in 0..MaxStored}

ProductFiles ==
    {<<>>, <<[name |-> "p", url |-> "u", price |-> "9.99", description |-> "d", image |-> "i"]>>}

TestimonialFiles ==
    {<<>>, <<[text |-> MkText(12), author |-> "a", rating |-> 5]>>}

\* products_scraper.py, save_products
SaveProducts(content) ==
    /\ l_pc = "idle"
    /\ fs_products # File(content)
    /\ fs_products' = File(content)
    /\ UNCHANGED <<fs_testimonials, lcache, l_pc, l_fn, l_hit, l_ret, fsVars>>

\* testimonials_scraper.py, save_testimonials
SaveTestimonials(content) ==
    /\ l_pc = "idle"
    /\ fs_testimonials # File(content)
    /\ fs_testimonials' = File(content)
    /\ UNCHANGED <<fs_products, lcache, l_pc, l_fn, l_hit, l_ret, fsVars>>

\* reviews_scraper.py, save_reviews
StoreReviews(content) ==
    /\ l_pc = "idle"
    /\ SaveReviews(content)
    /\ UNCHANGED lVars

\* a whole run of run_analysis on a non-empty reviews.json, with or without
\* the classifier: lines 41-52 as one step
RunStored ==
    /\ l_pc = "idle"
    /\ fs_reviews.exists /\ fs_reviews.data # <<>>
    /\ \E ss \in {Fallback(TextsOf(fs_reviews.data)),
                  AnalyzeInOneBatch(mode, TextsOf(fs_reviews.data))} :
          /\ fs_analyzed # File(Merge(fs_reviews.data, ss))
          /\ fs_analyzed' = File(Merge(fs_reviews.data, ss))
    /\ UNCHANGED <<fs_reviews, lVars, rVars, annVars>>

-----------------------------------------------------------------------------
(* scraper/products_scraper.py: one scrape, step by step *)

MaxPages == 6

\* the .product elements a page can hold: one whose price carries its "$",
\* one whose price does not, and a stale one that raises at its first use
ProductElemPool ==
    {[stale |-> FALSE, name |-> <<" ", "B", "o", "x">>, href |-> "/product/1",
      price_text |-> <<"$", "9">>, short_description |-> <<"b", "o", "x", " ">>,
      src |-> "/1.png"],
     [stale |-> FALSE, name |-> <<"B", "o", "x", " ">>, href |-> "/product/1",
      price_text |-> <<" ", "9">>, short_description |-> <<"b", "o", "x">>,
      src |-> "/1.png"],
     [stale |-> TRUE]}

ProductPages == UNION {[1..n -> ProductElemPool] : n \in 0..MaxElems}

\* lines 61-92 for one element: the products it appends to all_products
ParseProduct(product_elem) ==
    IF product_elem.stale THEN <<>>
    ELSE LET price_text == Strip(product_elem.price_text)
         IN  <<[name |-> Strip(product_elem.name),
                url |-> product_elem.href,
                price |-> IF StartsWith(price_text, <<"$">>) THEN price_text
                          ELSE <<"$">> \o price_text,
                description |-> Strip(product_elem.short_description),
                image |-> product_elem.src]>>

\* lines 37-38: get_driver() starts Chrome or raises
ProductsStart ==
    /\ p_pc = "idle"
    /\ nscrapes < MaxScrapes
    /\ all_products' = <<>>
    /\ page' = 1
    /\ \/ p_driver' = "open" /\ p_pc' = "get"
       \/ p_driver' = "none" /\ p_pc' = "failed"
    /\ UNCHANGED <<p_quits, product_elements, p_idx, nscrapes>>

\* lines 42-46: driver.get(url) of the page, which may raise
ProductsGet ==
    /\ p_pc = "get"
    /\ p_pc' \in {"wait", "finally_raised"}
    /\ UNCHANGED <<p_driver, p_quits, page, product_elements, p_idx, all_products, nscrapes>>

\* lines 49-58: no .product element within 10 s and the page is skipped, or
\* find_elements lists the page, or raises
ProductsWait ==
    /\ p_pc = "wait"
    /\ \/ /\ p_pc' = IF page < MaxPages THEN "get" ELSE "finally"
          /\ page' = IF page < MaxPages THEN page + 1 ELSE page
          /\ UNCHANGED <<product_elements, p_idx>>
       \/ /\ \E elems \in ProductPages : product_elements' = elems
          /\ p_idx' = 0
          /\ p_pc' = "parsing"
          /\ UNCHANGED page
       \/ /\ p_pc' = "finally_raised"
          /\ UNCHANGED <<page, product_elements, p_idx>>
    /\ UNCHANGED <<p_driver, p_quits, all_products, nscrapes>>

\* lines 60-92: one pass of the inner for loop
ProductsParseNext ==
    /\ p_pc = "parsing"
    /\ p_idx < Len(product_elements)
    /\ all_products' = all_products \o ParseProduct(product_elements[p_idx + 1])
    /\ p_idx' = p_idx + 1
    /\ UNCHANGED <<p_pc, p_driver, p_quits, page, product_elements, nscrapes>>

\* lines 42, 95: the inner loop is over, on to the next page or out of the
\* outer loop after the sixth
ProductsPageDone ==
    /\ p_pc = "parsing"
    /\ p_idx = Len(product_elements)
    /\ p_pc' = IF page < MaxPages THEN "get" ELSE "finally"
    /\ page' = IF page < MaxPages THEN page + 1 ELSE page
    /\ product_elements' = <<>>
    /\ p_idx' = 0
    /\ UNCHANGED <<p_driver, p_quits, all_products, nscrapes>>

\* a finally block that leaves the browser running when an exception is
\* under way
ProductsQuit_OnReturnOnly ==
    /\ p_pc \in {"finally", "finally_raised"}
    /\ p_driver' = IF p_pc = "finally" THEN "quit" ELSE p_driver
    /\ p_quits' = IF p_pc = "finally" THEN p_quits + 1 ELSE p_quits
    /\ p_pc' = IF p_pc = "finally" THEN "returned" ELSE "failed"
    /\ UNCHANGED <<page, product_elements, p_idx, all_products, nscrapes>>

\* lines 97-100: driver.quit() in the finally block, then the return or the
\* exception that was under way
ProductsQuit ==
    /\ p_pc \in {"finally", "finally_raised"}
    /\ p_driver' = "quit"
    /\ p_quits' = p_quits + 1
    /\ p_pc' = IF p_pc = "finally" THEN "returned" ELSE "failed"
    /\ UNCHANGED <<page, product_elements, p_idx, all_products, nscrapes>>

\* line 100: the caller has the list, or the exception, and the call is over
ProductsExit ==
    /\ p_pc \in {"returned", "failed"}
    /\ p_pc' = "idle"
    /\ p_driver' = "none"
    /\ p_quits' = 0
    /\ page' = 1
    /\ product_elements' = <<>>
    /\ p_idx' = 0
    /\ all_products' = <<>>
    /\ nscrapes' = nscrapes + 1

-----------------------------------------------------------------------------
(* scraper/testimonials_scraper.py: one scrape, step by step *)

MaxScrolls == 5

Anonymous == <<"A", "n", "o", "n", "y", "m", "o", "u", "s">>

\* the .testimonial elements a page can hold: with text, author and stars;
\* without .text, author and stars; with a text too short to keep; and a
\* stale one that raises at its first use
TestimonialElemPool ==
    {[stale |-> FALSE, full_text |-> MkText(12) \o <<" ", "A", "n", "n">>,
      text_elem |-> MkText(12), author_elem |-> <<"A", "n", "n", " ">>, svgs |-> 4],
     [stale |-> FALSE, full_text |-> <<" ">> \o MkText(12), svgs |-> 0],
     [stale |-> FALSE, full_text |-> MkText(5), text_elem |-> MkText(5), svgs |-> 3],
     [stale |-> TRUE]}

TestimonialPages == UNION {[1..n -> TestimonialElemPool] : n \in 0..MaxElems}

\* lines 81-116 for one element: the testimonials it appends to
\* all_testimonials
ParseTestimonial(testimonial_elem) ==
    IF testimonial_elem.stale THEN <<>>
    ELSE LET text == IF "text_elem" \in DOMAIN testimonial_elem
                       THEN Strip(testimonial_elem.text_elem)
                       ELSE Strip(testimonial_elem.full_text)
             author == IF "author_elem" \in DOMAIN testimonial_elem
                         THEN Strip(testimonial_elem.author_elem)
                         ELSE Anonymous
             star_svgs == testimonial_elem.svgs
             rating == IF star_svgs > 0 THEN star_svgs ELSE 5
         IN  IF text = <<>> THEN <<>>
             ELSE IF Len(text) > 5
               THEN <<[text |-> text, author |-> author, rating |-> rating]>>
             ELSE <<>>

\* lines 38-39: get_driver() starts Chrome or raises
TestimonialsStart ==
    /\ t_pc = "idle"
    /\ nscrapes < MaxScrapes
    /\ all_testimonials' = <<>>
    /\ \/ t_driver' = "open" /\ t_pc' = "navigate"
       \/ t_driver' = "none" /\ t_pc' = "failed"
    /\ UNCHANGED <<t_quits, scroll_count, scrolls, testimonial_elements, t_idx,
                   t_ret, nscrapes>>

\* lines 43-51: load the page and read its height; either call may raise
TestimonialsNavigate ==
    /\ t_pc = "navigate"
    /\ scroll_count' = 0
    /\ scrolls' = 0
    /\ t_pc' \in {"scrolling", "finally_raised"}
    /\ UNCHANGED <<t_driver, t_quits, testimonial_elements, t_idx, all_testimonials,
                   t_ret, nscrapes>>

\* lines 53-66: one scroll after which the page has grown
Scroll ==
    /\ t_pc = "scrolling"
    /\ scroll_count < MaxScrolls
    /\ scrolls' = scrolls + 1
    /\ scroll_count' = scroll_count + 1
    /\ UNCHANGED <<t_pc, t_driver, t_quits, testimonial_elements, t_idx,
                   all_testimonials, t_ret, nscrapes>>

\* lines 53-62: one scroll after which the page has not grown, which ends
\* the loop, or a scroll that raises
ScrollLast ==
    /\ t_pc = "scrolling"
    /\ scroll_count < MaxScrolls
    /\ scrolls' = scrolls + 1
    /\ t_pc' \in {"extracting", "finally_raised"}
    /\ UNCHANGED <<t_driver, t_quits, scroll_count, testimonial_elements, t_idx,
                   all_testimonials, t_ret, nscrapes>>

\* line 53: the loop ends at max_scrolls
ScrollLimit ==
    /\ t_pc = "scrolling"
    /\ scroll_count = MaxScrolls
    /\ t_pc' = "extracting"
    /\ UNCHANGED <<t_driver, t_quits, scroll_count, scrolls, testimonial_elements,
                   t_idx, all_testimonials, t_ret, nscrapes>>

\* lines 72-78: find_elements lists the page, by the first selector or the
\* second, or raises
TestimonialsFind ==
    /\ t_pc = "extracting"
    /\ t_idx' = 0
    /\ \/ \E elems \in TestimonialPages :
             testimonial_elements' = elems /\ t_pc' = "parsing"
       \/ testimonial_elements' = <<>> /\ t_pc' = "finally_raised"
    /\ UNCHANGED <<t_driver, t_quits, scroll_count, scrolls, all_testimonials,
                   t_ret, nscrapes>>

\* lines 80-116: one pass of the for loop
TestimonialsParseNext ==
    /\ t_pc = "parsing"
    /\ t_idx < Len(testimonial_elements)
    /\ all_testimonials' =
          all_testimonials \o ParseTestimonial(testimonial_elements[t_idx + 1])
    /\ t_idx' = t_idx + 1
    /\ UNCHANGED <<t_pc, t_driver, t_quits, scroll_count, scrolls,
                   testimonial_elements, t_ret, nscrapes>>

\* the for loop is over
TestimonialsParseDone ==
    /\ t_pc = "parsing"
    /\ t_idx = Len(testimonial_elements)
    /\ t_pc' = "finally"
    /\ UNCHANGED <<t_driver, t_quits, scroll_count, scrolls, testimonial_elements,
                   t_idx, all_testimonials, t_ret, nscrapes>>

\* lines 118-121: driver.quit() in the finally block, then the return or the
\* exception that was under way
TestimonialsQuit ==
    /\ t_pc \in {"finally", "finally_raised"}
    /\ t_driver' = "quit"
    /\ t_quits' = t_quits + 1
    /\ t_pc' = IF t_pc = "finally" THEN "returned" ELSE "failed"
    /\ UNCHANGED <<scroll_count, scrolls, testimonial_elements, t_idx,
                   all_testimonials, t_ret, nscrapes>>

\* lines 126-134: scrape_testimonials hands the list on, or catches the
\* exception and returns the empty list
TestimonialsReturn ==
    /\ t_pc \in {"returned", "failed"}
    /\ t_ret' = IF t_pc = "returned" THEN all_testimonials ELSE <<>>
    /\ t_pc' = "scraped"
    /\ UNCHANGED <<t_driver, t_quits, scroll_count, scrolls, testimonial_elements,
                   t_idx, all_testimonials, nscrapes>>

\* line 134: the caller has the list and the call is over
TestimonialsExit ==
    /\ t_pc = "scraped"
    /\ t_pc' = "idle"
    /\ t_driver' = "none"
    /\ t_quits' = 0
    /\ scroll_count' = 0
    /\ scrolls' = 0
    /\ testimonial_elements' = <<>>
    /\ t_idx' = 0
    /\ all_testimonials' = <<>>
    /\ t_ret' = <<>>
    /\ nscrapes' = nscrapes + 1

-----------------------------------------------------------------------------
(* The annotation pipeline on its own *)

InitAnn ==
    /\ model = "unloaded"
    /\ mode \in Modes
    /\ pc = "idle"
    /\ texts = <<>>
    /\ truncated_texts = <<>>
    /\ i = 0
    /\ results = <<>>
    /\ ret = <<>>
    /\ calls = <<>>
    /\ cache = {}
    /\ ncalls = 0

InitSingle ==
    /\ s_pc = "idle"
    /\ s_text = <<>>
    /\ s_calls = <<>>
    /\ s_ret = NoResult

InitFiles ==
    /\ fs_reviews = Missing
    /\ fs_analyzed = Missing

InitDash ==
    /\ d_pc = "idle"
    /\ sentiments = <<>>
    /\ summary = EmptySummary
    /\ d_reviews = <<>>
    /\ month_options = <<>>
    /\ month_map = <<>>
    /\ selected_month = <<>>
    /\ filtered_reviews = <<>>
    /\ d_summary = NoSummary

InitRun ==
    /\ r_pc = "idle"
    /\ r_reviews = <<>>
    /\ r_printed = NothingPrinted
    /\ nruns = 0

InitHist == returned = <<>>

InitScrape ==
    /\ sc_pc = "idle"
    /\ driver = "none"
    /\ quits = 0
    /\ click_count = 0
    /\ review_elements = <<>>
    /\ e_idx = 0
    /\ all_reviews = <<>>
    /\ sc_ret = <<>>
    /\ nscrapes = 0

InitLoad ==
    /\ fs_products = Missing
    /\ fs_testimonials = Missing
    /\ lcache = [f \in Loaders |-> NoEntry]
    /\ l_pc = "idle"
    /\ l_fn = "none"
    /\ l_hit = FALSE
    /\ l_ret = <<>>

InitProducts ==
    /\ p_pc = "idle"
    /\ p_driver = "none"
    /\ p_quits = 0
    /\ page = 1
    /\ product_elements = <<>>
    /\ p_idx = 0
    /\ all_products = <<>>

InitTestimonials ==
    /\ t_pc = "idle"
    /\ t_driver = "none"
    /\ t_quits = 0
    /\ scroll_count = 0
    /\ scrolls = 0
    /\ testimonial_elements = <<>>
    /\ t_idx = 0
    /\ all_testimonials = <<>>
    /\ t_ret = <<>>

Init ==
    /\ InitAnn /\ InitHist /\ InitSingle /\ InitFiles /\ InitDash /\ InitRun
    /\ InitScrape /\ InitLoad /\ InitProducts /\ InitTestimonials
    /\ script = "none"

NextAnn ==
    \/ \E ts \in TextTuples : AnalyzeReviewsCached(ts) /\ UNCHANGED sVars
    \/ \E ts \in TextTuples : AnalyzeReviewsEnter(ts) /\ UNCHANGED sVars
    \/ AnalyzeReviewsBatch /\ UNCHANGED sVars
    \/ AnalyzeReviewsRaise /\ UNCHANGED sVars
    \/ AnalyzeReviewsReturn /\ UNCHANGED sVars
    \/ AnalyzeReviewsExit /\ UNCHANGED sVars
    \/ CacheExpire /\ UNCHANGED sVars
    \/ \E k \in 1..Len(TextPool) : AnalyzeSentiment(TextPool[k])
    \/ AnalyzeSentimentExit

\* get_sentiment_summary on the list analyze_reviews has just returned
SummaryOfResult ==
    /\ pc = "done"
    /\ SummaryCall(ret)

Next ==
    \/ NextAnn /\ d_pc = "idle" /\ UNCHANGED <<hVars, fsVars, dVars, rVars, scVars, pVars, tVars, kVars, lVars>>
    \/ SummaryOfResult /\ UNCHANGED <<annVars, hVars, sVars, fsVars, rVars, scVars, pVars, tVars, kVars, lVars>>
    \/ DashExit /\ UNCHANGED <<annVars, hVars, sVars, fsVars, rVars, scVars, pVars, tVars, kVars, lVars>>

vars == <<annVars, hVars, sVars, fsVars, dVars, rVars, scVars, lVars, pVars,
          tVars, kVars>>

Spec == Init /\ [][Next]_vars

-----------------------------------------------------------------------------
(* analyze_reviews with the record of what it returned *)

InitIdem == Init /\ mode = "by_length"

NextIdem ==
    /\ \/ \E ts \in TextTuples : AnalyzeReviewsCached(ts)
       \/ \E ts \in TextTuples : AnalyzeReviewsEnter(ts)
       \/ AnalyzeReviewsBatch
       \/ AnalyzeReviewsRaise
       \/ AnalyzeReviewsReturn
       \/ AnalyzeReviewsExit
       \/ CacheExpire
    /\ Observed
    /\ UNCHANGED <<sVars, fsVars, dVars, rVars, scVars, pVars, tVars, kVars, lVars>>

SpecIdem == InitIdem /\ [][NextIdem]_vars

-----------------------------------------------------------------------------
(* Aggregation and the dashboard on their own *)

InitAgg == Init /\ mode = "by_length"

NextAgg ==
    /\ \/ \E ss \in SentimentLists : SummaryCall(ss)
       \/ \E rs \in ShownCollections : \E c \in 0..MaxShown : DisplayReviews(rs, c)
       \/ DashExit
    /\ UNCHANGED <<annVars, hVars, sVars, fsVars, rVars, scVars, pVars, tVars, kVars, lVars>>

SpecAgg == InitAgg /\ [][NextAgg]_vars

-----------------------------------------------------------------------------
(* display_reviews followed by get_sentiment_summary on the same records *)

NextInline ==
    /\ \/ \E rs \in ShownCollections : \E c \in 0..MaxShown : DisplayReviews(rs, c)
       \/ SummaryOfShown
       \/ DashExit
    /\ UNCHANGED <<annVars, hVars, sVars, fsVars, rVars, scVars, pVars, tVars, kVars, lVars>>

SpecInline == InitAgg /\ [][NextInline]_vars

-----------------------------------------------------------------------------
(* The aggregation and the dashboard called on a collection the caller    *)
(* holds: the caller binds the list first, the call comes as its own step  *)

\* main() line 515: the caller's reviews
HandReviews(rs) ==
    /\ d_pc = "idle"
    /\ d_reviews = <<>> /\ sentiments = <<>>
    /\ rs # <<>>
    /\ d_reviews' = rs
    /\ UNCHANGED <<d_pc, sentiments, summary, month_options, month_map,
                   selected_month, filtered_reviews, d_summary>>

\* the caller's list of classifier results
HandSentiments(ss) ==
    /\ d_pc = "idle"
    /\ d_reviews = <<>> /\ sentiments = <<>>
    /\ ss # <<>>
    /\ sentiments' = ss
    /\ UNCHANGED <<d_pc, summary, d_reviews, month_options, month_map,
                   selected_month, filtered_reviews, d_summary>>

\* get_available_months, filter_reviews_by_month and display_reviews on the
\* caller's reviews
ShowHanded(choice) ==
    /\ sentiments = <<>>
    /\ DisplayReviews(d_reviews, choice)

\* get_sentiment_summary on the caller's list
SummaryOfHanded ==
    /\ d_reviews = <<>>
    /\ SummaryCall(sentiments)

\* get_sentiment_summary once more on the list the first call left
SummaryAgain ==
    /\ d_pc = "summary"
    /\ summary' = GetSentimentSummary(sentiments)
    /\ d_pc' = "summary_again"
    /\ UNCHANGED <<sentiments, d_reviews, month_options, month_map,
                   selected_month, filtered_reviews, d_summary>>

NextFrame ==
    /\ \/ \E rs \in ShownCollections : HandReviews(rs)
       \/ \E ss \in SentimentLists : HandSentiments(ss)
       \/ \E c \in 0..MaxShown : ShowHanded(c)
       \/ SummaryOfHanded
       \/ SummaryAgain
       \/ DashExit
    /\ UNCHANGED <<annVars, hVars, sVars, fsVars, rVars, scVars, pVars, tVars, kVars, lVars>>

SpecFrame == InitAgg /\ [][NextFrame]_vars

-----------------------------------------------------------------------------
(* run_analysis on its own *)

NextRun ==
    /\ \/ RunLoad
       \/ RunAnalyze
       \/ AnalyzeReviewsBatch /\ r_pc = "analyzing" /\ UNCHANGED <<rVars, fsVars>>
       \/ AnalyzeReviewsRaise /\ r_pc = "analyzing" /\ UNCHANGED <<rVars, fsVars>>
       \/ AnalyzeReviewsReturn /\ r_pc = "analyzing" /\ UNCHANGED <<rVars, fsVars>>
       \/ RunFail
       \/ RunFinish
       \/ RunExit
       \/ \E c \in ReviewFiles : SaveReviews(c)
    /\ UNCHANGED <<hVars, sVars, dVars, scVars, pVars, tVars, kVars, lVars>>

SpecRun == Init /\ [][NextRun]_vars

-----------------------------------------------------------------------------
(* run_analysis and the dashboard over the same data directory: the       *)
(* Reviews page shows what load_reviews reads from the files the runs left *)

\* the Reviews page of a fresh dashboard session
DisplayStored(choice) ==
    /\ r_pc = "idle"
    /\ DisplayReviews(LoadReviews(fs_analyzed, fs_reviews), choice)

NextPipe ==
    \/ NextRun /\ d_pc = "idle"
    \/ /\ \/ \E c \in 0..MaxShown : DisplayStored(c)
          \/ DashExit
       /\ UNCHANGED <<annVars, hVars, sVars, fsVars, rVars, scVars, pVars, tVars, kVars, lVars>>

SpecPipe == Init /\ [][NextPipe]_vars

-----------------------------------------------------------------------------
(* The reviews scraper on its own *)

NextScrape ==
    /\ \/ ScrapeStart
       \/ Navigate
       \/ ClickLoadMore
       \/ FindElements
       \/ ParseNext
       \/ ParseDone
       \/ Quit
       \/ ScrapeReturn
       \/ ScrapeSave
    /\ UNCHANGED <<annVars, hVars, sVars, dVars, rVars, lVars, pVars, tVars, kVars>>

\* the classifier plays no part
SpecScrape == InitAgg /\ [][NextScrape]_vars

-----------------------------------------------------------------------------
(* The three scrapers and their browsers *)

\* what the products scraper leaves alone
productsFrame == <<sc_pc, driver, quits, click_count, review_elements, e_idx,
                   all_reviews, sc_ret, fsVars, lVars, tVars>>

\* what the testimonials scraper leaves alone
testimonialsFrame == <<sc_pc, driver, quits, click_count, review_elements, e_idx,
                       all_reviews, sc_ret, fsVars, lVars, pVars>>

\* a scraper is started; a behaviour follows the runs of one of the three
DriverStart ==
    /\ \/ /\ script \in {"none", "reviews"} /\ script' = "reviews"
          /\ ScrapeStart /\ UNCHANGED <<lVars, pVars, tVars>>
       \/ /\ script \in {"none", "products"} /\ script' = "products"
          /\ ProductsStart /\ UNCHANGED productsFrame
       \/ /\ script \in {"none", "testimonials"} /\ script' = "testimonials"
          /\ TestimonialsStart /\ UNCHANGED testimonialsFrame
    /\ UNCHANGED <<annVars, hVars, sVars, dVars, rVars>>

ReviewsParse == ParseNext /\ UNCHANGED <<lVars, pVars, tVars>>

ReviewsOther ==
    /\ \/ Navigate
       \/ ClickLoadMore
       \/ FindElements
       \/ ParseDone
       \/ Quit
       \/ ScrapeReturn
       \/ ScrapeSave
    /\ UNCHANGED <<lVars, pVars, tVars>>

ReviewsStep == ReviewsParse \/ ReviewsOther

ProductsStep ==
    /\ \/ ProductsGet
       \/ ProductsWait
       \/ ProductsParseNext
       \/ ProductsPageDone
       \/ ProductsQuit
       \/ ProductsExit
    /\ UNCHANGED productsFrame

TestimonialsStep ==
    /\ \/ TestimonialsNavigate
       \/ Scroll
       \/ ScrollLast
       \/ ScrollLimit
       \/ TestimonialsFind
       \/ TestimonialsParseNext
       \/ TestimonialsParseDone
       \/ TestimonialsQuit
       \/ TestimonialsReturn
       \/ TestimonialsExit
    /\ UNCHANGED testimonialsFrame

\* the script that was started takes its next step
DriverStep ==
    /\ ReviewsStep \/ ProductsStep \/ TestimonialsStep
    /\ UNCHANGED <<annVars, hVars, sVars, dVars, rVars, kVars>>

NextDriver == DriverStart \/ DriverStep

\* ParseNext told by its loop counter: enabled when ParseNext is, and no
\* other step moves e_idx on while the elements are parsed
ParsePass ==
    /\ sc_pc = "parsing"
    /\ e_idx < Len(review_elements)
    /\ e_idx' = e_idx + 1

\* the steps of DriverStep but ParseNext
DriverProgress ==
    /\ ReviewsOther \/ ProductsStep \/ TestimonialsStep
    /\ UNCHANGED <<annVars, hVars, sVars, dVars, rVars, kVars>>

\* a script that was started runs on: every Selenium call returns or raises
\* within its timeout, and the loops are bounded.  The classifier plays no
\* part
SpecDriver ==
    InitAgg /\ [][NextDriver]_vars /\ WF_vars(DriverProgress) /\ WF_e_idx(ParsePass)

-----------------------------------------------------------------------------
(* The loaders of the dashboard next to the scripts that write the files *)

NextLoad ==
    /\ \/ (\E fn \in Loaders : LoadCall(fn)) /\ UNCHANGED <<annVars, rVars>>
       \/ LoadExit /\ UNCHANGED <<annVars, rVars>>
       \/ (\E fn \in Loaders : LoadCacheExpire(fn)) /\ UNCHANGED <<annVars, rVars>>
       \/ (\E c \in ProductFiles : SaveProducts(c)) /\ UNCHANGED <<annVars, rVars>>
       \/ (\E c \in TestimonialFiles : SaveTestimonials(c)) /\ UNCHANGED <<annVars, rVars>>
       \/ \E c \in StoredReviews : StoreReviews(c)
       \/ RunStored
    /\ UNCHANGED <<hVars, sVars, dVars, scVars, pVars, tVars, kVars>>

SpecLoad == InitAgg /\ [][NextLoad]_vars

-----------------------------------------------------------------------------
(* Properties of the annotation pipeline *)

\* the first n characters of t
Prefix(t, n) == [k \in 1..n |-> t[k]]

Prefix512(t) == Prefix(t, Min(Len(t), 512))

RECURSIVE Flatten(_)
Flatten(ss) == IF ss = <<>> THEN <<>> ELSE Head(ss) \o Flatten(Tail(ss))

\* C1: with a loaded classifier that answers every call, analyze_reviews
\* returns as many results as it was given texts, and the k-th result is the
\* classifier's label and (rounded) score for the k-th text: same order,
\* nothing dropped or repeated at a batch boundary.
C1_SameLengthSameOrder ==
    (pc = "done" /\ model = "loaded") =>
        /\ Len(ret) = Len(texts)
        /\ \A k \in 1..Len(texts) :
             /\ ret[k].label = ClassifyLabel(mode, Truncate(texts[k]))
             /\ ret[k].score = Round4(ClassifyScore(mode, Truncate(texts[k])))

C1_Witness ==
    /\ pc = "done" /\ model = "loaded"
    /\ Len(texts) = 17
    /\ Len(calls) = 3
    /\ \E j, k \in 1..Len(ret) : ret[j] # ret[k]

\* C2: when load_sentiment_model returned None, analyze_reviews returns one
\* {UNKNOWN, 0.0} per text and analyze_sentiment returns {UNKNOWN, 0.0};
\* neither raises and the classifier is never called.
C2_UnavailableDegrades ==
    model = "none" =>
        /\ pc # "raised" /\ s_pc # "raised"
        /\ calls = <<>> /\ s_calls = <<>>
        /\ pc = "done" =>
             /\ Len(ret) = Len(texts)
             /\ \A k \in 1..Len(ret) : ret[k].label = "UNKNOWN" /\ ret[k].score = 0
        /\ s_pc = "done" => (s_ret.label = "UNKNOWN" /\ s_ret.score = 0)

C2_Witness ==
    /\ model = "none" /\ pc = "done"
    /\ Len(texts) = 10
    /\ Len(ret) = 10

\* C3: a classifier error during some batch does not make annotation fail.
C3_ErrorDoesNotFail == pc # "raised"

\* C4: every string handed to the classifier has at most 512 characters and
\* is the first min(len, 512) characters of the text it stands for; a text
\* longer than 512 characters gets the result of its 512-character prefix.
C4_TruncatedToPrefix ==
    /\ \A k \in 1..Len(Flatten(calls)) :
         /\ k <= Len(texts)
         /\ Len(Flatten(calls)[k]) <= 512
         /\ Flatten(calls)[k] = Prefix512(texts[k])
    /\ \A k \in 1..Len(s_calls) :
         /\ Len(s_calls[k]) <= 512
         /\ s_calls[k] = Prefix512(s_text)
    /\ (pc = "done" /\ model = "loaded") =>
         \A j, k \in 1..Len(texts) :
            (Len(texts[j]) > 512 /\ texts[k] = Prefix(texts[j], 512))
                => (j <= Len(ret) /\ k <= Len(ret) /\ ret[j] = ret[k])
    /\ (s_pc = "done" /\ model = "loaded" /\ Len(s_text) > 512) =>
         s_ret = Rounded(ClassifyOne(mode, Prefix(s_text, 512)))

C4_Witness ==
    /\ pc = "done" /\ model = "loaded"
    /\ calls # <<>>
    /\ \E j, k \in 1..Len(texts) :
         /\ Len(texts[j]) = 600
         /\ texts[k] = Prefix(texts[j], 512)
         /\ ret[j] = ret[k]

\* C5: with a classifier that labels each string on its own, the result of
\* analyze_reviews (batch size 8) equals, element by element, the result with
\* batch size 1 and the result of one batch holding all the texts.
C5_BatchSizeInvariant ==
    (pc = "done" /\ model = "loaded") =>
        /\ ret = AnalyzeWithBatchSize(mode, texts, 1)
        /\ ret = AnalyzeInOneBatch(mode, texts)

C5_Witness ==
    /\ pc = "done" /\ model = "loaded"
    /\ Len(texts) = 10
    /\ Len(calls) = 2
    /\ Len(calls[2]) = 2
    /\ Len(ret) = 10

\* C19: within one execution of the body the classifier is fed one batch
\* after the other: every call holds 1 to 8 strings, every call but the last
\* exactly 8, the calls put end to end are the truncated input in its order,
\* there are ceil(n / 8) of them for n texts and none for the empty input,
\* for a missing classifier or for a cached answer.
C19_ConsecutiveBatches ==
    /\ \A k \in 1..Len(calls) :
          /\ Len(calls[k]) \in 1..BatchSize
          /\ k < Len(calls) => Len(calls[k]) = BatchSize
    /\ Len(Flatten(calls)) <= Len(texts)
    /\ \A k \in 1..Len(Flatten(calls)) : Flatten(calls)[k] = Prefix512(texts[k])
    /\ (pc = "done" /\ Len(truncated_texts) = Len(texts)) =>
          /\ Len(Flatten(calls)) = Len(texts)
          /\ Len(calls) = (Len(texts) + BatchSize - 1) \div BatchSize
    /\ (pc = "done" /\ Len(truncated_texts) # Len(texts)) => calls = <<>>
    /\ model # "loaded" => calls = <<>>
    /\ texts = <<>> => calls = <<>>

\* seventeen texts: two calls of eight strings and one of one
C19_Witness ==
    /\ pc = "done" /\ model = "loaded"
    /\ Len(texts) = 17
    /\ Len(calls) = 3
    /\ Len(calls[1]) = 8 /\ Len(calls[2]) = 8 /\ Len(calls[3]) = 1

-----------------------------------------------------------------------------
(* Properties of the aggregation *)

Labelled(ss, l) == {k \in 1..Len(ss) : ss[k].label = l}

RECURSIVE ScoreSum(_, _)
ScoreSum(ss, idx) ==
    IF idx = {} THEN 0
    ELSE LET k == CHOOSE j \in idx : TRUE
         IN  ss[k].score + ScoreSum(ss, idx \ {k})

Abs(x) == IF x < 0 THEN -x ELSE x

\* m is the mean of the scores at idx to 4 decimal digits: a multiple of
\* 0.0001 at most half a step from the exact quotient, 0.0 for no score
IsRoundedMean(m, ss, idx) ==
    IF idx = {} THEN m = 0
    ELSE /\ m % 10 = 0
         /\ 2 * Abs(m * Cardinality(idx) - ScoreSum(ss, idx)) <= 10 * Cardinality(idx)

\* C6: positive_count and negative_count are the numbers of records labelled
\* POSITIVE and NEGATIVE, the two means are taken over these records only
\* (UNKNOWN enters neither), positive_count + negative_count <= total, and
\* POSITIVE 0.99 / NEGATIVE 0.95 gives {1, 1, 0.99, 0.95, total 2}.
C6_CountsAndMeans ==
    d_pc = "summary" =>
        /\ summary.positive_count = Cardinality(Labelled(sentiments, "POSITIVE"))
        /\ summary.negative_count = Cardinality(Labelled(sentiments, "NEGATIVE"))
        /\ IsRoundedMean(summary.positive_avg_confidence, sentiments,
                         Labelled(sentiments, "POSITIVE"))
        /\ IsRoundedMean(summary.negative_avg_confidence, sentiments,
                         Labelled(sentiments, "NEGATIVE"))
        /\ summary.positive_count + summary.negative_count <= summary.total
        /\ sentiments = <<[label |-> "POSITIVE", score |-> 99000],
                          [label |-> "NEGATIVE", score |-> 95000]>>
             => summary = [positive_count |-> 1, negative_count |-> 1,
                           positive_avg_confidence |-> 99000,
                           negative_avg_confidence |-> 95000, total |-> 2]

C6_Witness ==
    /\ d_pc = "summary"
    /\ Labelled(sentiments, "UNKNOWN") # {}
    /\ Cardinality(Labelled(sentiments, "POSITIVE")) = 2
    /\ Labelled(sentiments, "NEGATIVE") # {}
    /\ summary.positive_count + summary.negative_count < summary.total

\* C7: the mean confidence of an empty subset is 0.0, in
\* get_sentiment_summary and in the summary of display_reviews, and no mean
\* divides by zero; the empty collection gives {0, 0, 0.0, 0.0, total 0}.
C7_EmptySubsetMeanZero ==
    /\ d_pc = "summary" =>
         /\ summary.positive_count = 0 => summary.positive_avg_confidence = 0
         /\ summary.negative_count = 0 => summary.negative_avg_confidence = 0
         /\ sentiments = <<>> =>
              summary = [positive_count |-> 0, negative_count |-> 0,
                         positive_avg_confidence |-> 0,
                         negative_avg_confidence |-> 0, total |-> 0]
    /\ d_pc = "shown" =>
         /\ d_summary.positive_avg_confidence.den > 0
         /\ d_summary.negative_avg_confidence.den > 0
         /\ d_summary.positive_count = 0 => d_summary.positive_avg_confidence.num = 0
         /\ d_summary.negative_count = 0 => d_summary.negative_avg_confidence.num = 0

C7_Witness ==
    /\ d_pc = "summary"
    /\ sentiments # <<>>
    /\ summary.positive_count = 0
    /\ summary.negative_count > 0
    /\ summary.positive_avg_confidence = 0

\* C9 as claimed: total is the number of records labelled POSITIVE or
\* NEGATIVE.
C9_TotalCountsLabelledOnly ==
    d_pc = "summary" =>
        summary.total = Cardinality(Labelled(sentiments, "POSITIVE")
                                    \cup Labelled(sentiments, "NEGATIVE"))

\* C9 as amended: total is the number of all records, UNKNOWN included; it is
\* positive_count + negative_count that counts the records labelled POSITIVE
\* or NEGATIVE.
C9_TotalCountsEveryRecord ==
    d_pc = "summary" =>
        /\ summary.total = Len(sentiments)
        /\ summary.total = summary.positive_count + summary.negative_count
                           + Cardinality(Labelled(sentiments, "UNKNOWN"))

C9_Witness ==
    /\ d_pc = "summary"
    /\ Len(sentiments) = 2
    /\ Cardinality(Labelled(sentiments, "UNKNOWN")) = 2
    /\ summary.total = 2
    /\ summary.positive_count + summary.negative_count = 0

\* conf is score to 4 decimals: a multiple of 0.0001 within [0, 1], at most
\* half a step from the score
IsRounded4(conf, score) ==
    /\ conf % 10 = 0
    /\ conf \in 0..100000
    /\ 2 * Abs(conf - score) <= 10

\* C16: the confidence analyze_reviews and analyze_sentiment store is the
\* classifier's score rounded to 4 decimals, a multiple of 0.0001 within
\* [0, 1], next to the classifier's label unchanged; the two means of
\* get_sentiment_summary are rounded to 4 decimals.
C16_RoundedToFourDecimals ==
    /\ (pc = "done" /\ model = "loaded") =>
          \A k \in 1..Len(ret) :
             /\ ret[k].label = ClassifyLabel(mode, Prefix512(texts[k]))
             /\ IsRounded4(ret[k].score, ClassifyScore(mode, Prefix512(texts[k])))
    /\ (s_pc = "done" /\ model = "loaded") =>
          /\ s_ret.label = ClassifyLabel(mode, Prefix512(s_text))
          /\ IsRounded4(s_ret.score, ClassifyScore(mode, Prefix512(s_text)))
    /\ d_pc = "summary" =>
          /\ IsRoundedMean(summary.positive_avg_confidence, sentiments,
                           Labelled(sentiments, "POSITIVE"))
          /\ IsRoundedMean(summary.negative_avg_confidence, sentiments,
                           Labelled(sentiments, "NEGATIVE"))
          /\ summary.positive_avg_confidence \in 0..100000
          /\ summary.negative_avg_confidence \in 0..100000

\* the summary of seventeen results whose scores the classifier gave with a
\* fifth decimal
C16_Witness ==
    /\ pc = "done" /\ model = "loaded"
    /\ d_pc = "summary"
    /\ sentiments = ret
    /\ Len(ret) = 17
    /\ summary.positive_count > 1
    /\ summary.negative_count > 1
    /\ \E k \in 1..Len(ret) : ClassifyScore(mode, Prefix512(texts[k])) % 10 # 0

-----------------------------------------------------------------------------
(* Properties of run_analysis *)

\* C8: when the classifier is unavailable, run_analysis stores every record
\* with sentiment UNKNOWN and confidence 0.0 and its printed summary counts
\* none of them as positive and none as negative.
C8_UnknownNotCounted ==
    (r_pc = "finished" /\ model = "none") =>
        /\ fs_analyzed.exists
        /\ \A k \in 1..Len(fs_analyzed.data) :
             /\ fs_analyzed.data[k].sentiment = "UNKNOWN"
             /\ fs_analyzed.data[k].confidence = 0
        /\ r_printed.positive = 0
        /\ r_printed.negative = 0

\* C11: a run of run_analysis that finds no reviews.json does not stop on an
\* error: once it has left its start it is in the "no data" outcome, as for
\* an empty collection.
C11_MissingInputIsNoData ==
    (~fs_reviews.exists /\ r_pc # "idle") => r_pc = "no_reviews"

\* what the classifier of this run gives for the text of a record
ResultFor(review) ==
    IF model = "none" THEN Unknown
    ELSE Rounded(ClassifyOne(mode, Prefix512(Get(review, "text", <<>>))))

\* reviews_analyzed.json holds the records of reviews.json, in order, each
\* with the two annotation fields added and its own fields untouched
OutputMirrorsInput ==
    /\ fs_analyzed.exists
    /\ Len(fs_analyzed.data) = Len(fs_reviews.data)
    /\ \A k \in 1..Len(fs_reviews.data) :
         LET in == fs_reviews.data[k]
             out == fs_analyzed.data[k]
         IN  /\ DOMAIN out = DOMAIN in \cup {"sentiment", "confidence"}
             /\ \A f \in DOMAIN in \ {"sentiment", "confidence"} : out[f] = in[f]
             /\ out.sentiment = ResultFor(in).label
             /\ out.confidence = ResultFor(in).score

\* C13: after any run of run_analysis that completes, the empty input array
\* included, reviews_analyzed.json is the array of that run's reviews.json,
\* same length and order, each record with sentiment and confidence added
\* from the classifier's result for its text.
C13_OutputMirrorsEveryInput ==
    r_pc \in {"finished", "no_reviews"} => OutputMirrorsInput

\* C13 as amended: the above holds after every run that completes on a
\* non-empty array, also after an earlier run on other input; a run on the
\* empty array returns before the write and leaves reviews_analyzed.json as
\* it was.
C13_OutputMirrorsNonEmptyInput ==
    /\ [](r_pc = "finished" => OutputMirrorsInput)
    /\ [][r_pc' = "no_reviews" => fs_analyzed' = fs_analyzed]_vars

\* a later run, with the classifier, on three records
C13_Witness ==
    /\ r_pc = "finished"
    /\ nruns >= 1
    /\ model = "loaded"
    /\ Len(fs_reviews.data) = 3
    /\ Len(fs_analyzed.data) = 3

\* the sentiment and confidence of every record the pipeline has produced:
\* the list analyze_reviews returned and the records of reviews_analyzed.json
Produced ==
    {[sentiment |-> ret[k].label, confidence |-> ret[k].score] : k \in 1..Len(ret)}
    \cup {[sentiment |-> fs_analyzed.data[k].sentiment,
           confidence |-> fs_analyzed.data[k].confidence] :
             k \in 1..Len(fs_analyzed.data)}

\* C14: every record the annotation pipeline produces has a sentiment among
\* POSITIVE, NEGATIVE and UNKNOWN, and confidence 0.0 only together with
\* UNKNOWN: no POSITIVE or NEGATIVE record carries confidence 0.0, whatever
\* score in [0, 1] the classifier gave.
C14_ZeroOnlyWhenUnknown ==
    \A p \in Produced :
        /\ p.sentiment \in {"POSITIVE", "NEGATIVE", "UNKNOWN"}
        /\ p.confidence = 0 => p.sentiment = "UNKNOWN"

\* C14 as amended: the sentiment is among the three labels and the confidence
\* within [0, 1]; a POSITIVE or NEGATIVE record carries confidence 0.0
\* exactly when the classifier's score for its text was below 0.00005, and
\* an UNKNOWN record always carries 0.0.
C14_ZeroOnlyWhenUnknownOrBelowHalfStep ==
    /\ \A p \in Produced :
          /\ p.sentiment \in {"POSITIVE", "NEGATIVE", "UNKNOWN"}
          /\ p.confidence \in 0..100000
          /\ p.sentiment = "UNKNOWN" => p.confidence = 0
    /\ pc = "done" =>
          \A k \in 1..Len(ret) :
             ret[k].label # "UNKNOWN" =>
                (ret[k].score = 0 <=> ClassifyScore(mode, Prefix512(texts[k])) < 5)
    /\ r_pc = "finished" =>
          \A k \in 1..Len(ret) :
             /\ fs_analyzed.data[k].sentiment = ret[k].label
             /\ fs_analyzed.data[k].confidence = ret[k].score

\* a stored POSITIVE record with confidence 0.0 next to a stored record whose
\* score of 0.00006 was rounded up to 0.0001
C14_Witness ==
    /\ r_pc = "finished"
    /\ \E k \in 1..Len(fs_analyzed.data) :
          /\ fs_analyzed.data[k].sentiment = "POSITIVE"
          /\ fs_analyzed.data[k].confidence = 0
    /\ \E k \in 1..Len(fs_analyzed.data) :
          /\ fs_analyzed.data[k].sentiment = "NEGATIVE"
          /\ fs_analyzed.data[k].confidence = 10

-----------------------------------------------------------------------------
(* Properties of run_analysis followed by the dashboard *)

\* what the pipeline stores for the empty string
EmptyTextResult ==
    IF model = "none" THEN Unknown ELSE Rounded(ClassifyOne(mode, <<>>))

Undated(reviews) == {k \in 1..Len(reviews) : "date" \notin DOMAIN reviews[k]}

\* C12: a record without text or without date never makes a run or the page
\* fail: run_analysis stores a record that has no text field with the
\* sentiment and confidence of the empty string; a record that has no date
\* field stands behind no month option and is in no month's filtered list.
C12_MalformedRecordsTolerated ==
    /\ r_pc = "raised" => (pc = "raised" \/ ~fs_reviews.exists)
    /\ r_pc = "finished" =>
         \A k \in 1..Len(fs_reviews.data) :
            "text" \notin DOMAIN fs_reviews.data[k] =>
               /\ fs_analyzed.data[k].sentiment = EmptyTextResult.label
               /\ fs_analyzed.data[k].confidence = EmptyTextResult.score
    /\ d_pc \in {"shown", "no_dated_reviews", "no_reviews_for_month"} =>
         /\ \A k \in 1..Len(filtered_reviews) : "date" \in DOMAIN filtered_reviews[k]
         /\ \A j \in 1..Len(month_options) :
              \E k \in (1..Len(d_reviews)) \ Undated(d_reviews) :
                 StartsWith(d_reviews[k].date, month_map[month_options[j]])
         /\ Len(month_options) <= Len(d_reviews) - Cardinality(Undated(d_reviews))

\* the page shows a month of an annotated collection that holds a record
\* without date and the annotated record of an input without text
C12_Witness ==
    /\ d_pc = "shown"
    /\ Undated(d_reviews) # {}
    /\ fs_reviews.exists
    /\ \E k \in 1..Len(d_reviews) :
          /\ k <= Len(fs_reviews.data)
          /\ "text" \notin DOMAIN fs_reviews.data[k]
          /\ "text" \notin DOMAIN d_reviews[k]
          /\ Get(d_reviews[k], "sentiment", "") = "POSITIVE"
          /\ Get(d_reviews[k], "confidence", 0) = Rounded(ClassifyOne(mode, <<>>)).score

-----------------------------------------------------------------------------
(* Properties of the month selection *)

\* the MonthKey of the data model: the first 7 characters of the date
MonthKeyOf(date) == Prefix(date, Min(Len(date), 7))

DatedMonthKeys(reviews) ==
    {MonthKeyOf(reviews[k].date) :
        k \in {j \in 1..Len(reviews) :
                 "date" \in DOMAIN reviews[j] /\ reviews[j].date # <<>>}}

\* C10: the options are one per distinct MonthKey of the reviews with a
\* non-empty date, without duplicates, in ascending order of MonthKey;
\* month_map leads from each option back to its own MonthKey; every option
\* has a review that filter_reviews_by_month selects for it.
C10_OneOptionPerMonthKey ==
    d_pc \in {"shown", "no_dated_reviews", "no_reviews_for_month"} =>
        /\ Len(month_options) = Cardinality(DatedMonthKeys(d_reviews))
        /\ \A j, k \in 1..Len(month_options) :
             j # k => month_options[j] # month_options[k]
        /\ {month_map[month_options[k]] : k \in 1..Len(month_options)}
             = DatedMonthKeys(d_reviews)
        /\ \A j, k \in 1..Len(month_options) :
             j < k => StrLess(month_map[month_options[j]], month_map[month_options[k]])
        /\ \A k \in 1..Len(month_options) :
             FilterReviewsByMonth(d_reviews, month_map[month_options[k]]) # <<>>

-----------------------------------------------------------------------------
(* Properties of the calls on a collection the caller holds *)

\* C17: get_sentiment_summary, get_available_months, filter_reviews_by_month
\* and display_reviews leave the collection they are given and each of its
\* records as they were, the filtered list holds records of the collection,
\* and a second summary of the same list is the same summary.
C17_CollectionUnchanged ==
    [][/\ (d_pc = "idle" /\ d_pc' # "idle") =>
             /\ d_reviews' = d_reviews
             /\ sentiments' = sentiments
             /\ \A k \in 1..Len(filtered_reviews') :
                   \E j \in 1..Len(d_reviews) : d_reviews[j] = filtered_reviews'[k]
       /\ (d_pc = "summary" /\ d_pc' = "summary_again") =>
             /\ sentiments' = sentiments
             /\ summary' = summary]_vars

\* a page that shows two of the caller's three reviews
C17_Witness ==
    /\ d_pc = "shown"
    /\ Len(d_reviews) = 3
    /\ Len(filtered_reviews) = 2

-----------------------------------------------------------------------------
(* Properties of the reviews scraper *)

\* YYYY-MM-DD: ten characters, digits around two hyphens
IsISODate(s) == Len(s) = 10 /\ IsDateAt(s, 1)

WellFormedReview(r) ==
    /\ r.text # <<>>
    /\ IsISODate(r.date)
    /\ r.rating \in 1..5

\* C18: every review the scraper returns or stores has a non-empty text, a
\* date of the form YYYY-MM-DD and a rating among 1..5, whatever date text
\* and however many star elements the page holds.
C18_ScrapedReviewsWellFormed ==
    /\ \A k \in 1..Len(all_reviews) : WellFormedReview(all_reviews[k])
    /\ \A k \in 1..Len(sc_ret) : WellFormedReview(sc_ret[k])
    /\ \A k \in 1..Len(fs_reviews.data) : WellFormedReview(fs_reviews.data[k])

-----------------------------------------------------------------------------
(* Properties of the dashboard's loaders *)

\* what the files give load_reviews now
ResolvedFromFiles(v) ==
    /\ fs_analyzed.exists => v = fs_analyzed.data
    /\ (~fs_analyzed.exists /\ fs_reviews.exists) => v = fs_reviews.data
    /\ (~fs_analyzed.exists /\ ~fs_reviews.exists) => v = <<>>

\* C20: no call of a loader ends in an exception for a missing file;
\* load_reviews returns the contents of reviews_analyzed.json whenever that
\* file exists, otherwise those of reviews.json when that exists, otherwise
\* the empty list; load_products and load_testimonials return the empty list
\* when their file is missing.
C20_LoadersResolveFromFiles ==
    /\ l_pc \in {"idle", "returned"}
    /\ l_pc = "returned" =>
          /\ l_fn = "reviews" => ResolvedFromFiles(l_ret)
          /\ (l_fn = "products" /\ ~fs_products.exists) => l_ret = <<>>
          /\ (l_fn = "testimonials" /\ ~fs_testimonials.exists) => l_ret = <<>>

\* C20 as amended: load_reviews resolves analyzed, raw, empty from the files
\* when its body runs, that is on the first call and after its cache entry
\* expired; a call within the hour returns the stored list of the earlier
\* call, whatever has been written since.  The rest is as claimed.
C20_LoadersResolveOnCacheMiss ==
    /\ l_pc \in {"idle", "returned"}
    /\ l_pc = "returned" =>
          /\ (l_fn = "reviews" /\ ~l_hit) => ResolvedFromFiles(l_ret)
          /\ l_hit => (lcache[l_fn].valid /\ l_ret = lcache[l_fn].val)
          /\ ~l_hit => lcache[l_fn] = Entry(l_ret)
          /\ (l_fn = "products" /\ ~fs_products.exists) => l_ret = <<>>
          /\ (l_fn = "testimonials" /\ ~fs_testimonials.exists) => l_ret = <<>>

\* the body of load_reviews runs with both files in place and returns the
\* annotated records
C20_Witness ==
    /\ l_pc = "returned" /\ l_fn = "reviews" /\ ~l_hit
    /\ fs_analyzed.exists /\ fs_reviews.exists
    /\ Len(fs_reviews.data) = 2
    /\ Len(l_ret) = 2
    /\ l_ret = fs_analyzed.data
    /\ l_ret # fs_reviews.data

-----------------------------------------------------------------------------
(* Properties of the dashboard's inline summary *)

\* the quotient num / den is the number m
SameMean(q, m) == q.num = m * q.den

\* m is the quotient num / den rounded to four decimals: a multiple of
\* 0.0001 at most 0.00005 away from it
RoundedMean(q, m) ==
    /\ m % 10 = 0
    /\ 2 * Abs(m * q.den - q.num) <= 10 * q.den

SameCounts ==
    /\ d_summary.positive_count = summary.positive_count
    /\ d_summary.negative_count = summary.negative_count

\* C21 as stated: on the annotated reviews of one month the summary of
\* display_reviews and get_sentiment_summary have the same positive and
\* negative counts and the same positive and negative mean confidence
C21_InlineSummaryAgrees ==
    d_pc = "compared" =>
        /\ SameCounts
        /\ SameMean(d_summary.positive_avg_confidence,
                    summary.positive_avg_confidence)
        /\ SameMean(d_summary.negative_avg_confidence,
                    summary.negative_avg_confidence)

\* C21 amended: on the annotated reviews of one month the two summaries have
\* the same positive and negative counts, and each mean confidence of
\* get_sentiment_summary is the mean display_reviews computes rounded to
\* four decimals; the means are equal when the subset is empty (both 0) or
\* its exact mean has at most four decimals
C21_InlineSummaryAgreesUpToRounding ==
    d_pc = "compared" =>
        /\ SameCounts
        /\ RoundedMean(d_summary.positive_avg_confidence,
                       summary.positive_avg_confidence)
        /\ RoundedMean(d_summary.negative_avg_confidence,
                       summary.negative_avg_confidence)
        /\ d_summary.positive_avg_confidence.num
               % (10 * d_summary.positive_avg_confidence.den) = 0
             => SameMean(d_summary.positive_avg_confidence,
                         summary.positive_avg_confidence)
        /\ d_summary.negative_avg_confidence.num
               % (10 * d_summary.negative_avg_confidence.den) = 0
             => SameMean(d_summary.negative_avg_confidence,
                         summary.negative_avg_confidence)
        /\ d_summary.positive_count = 0
             => summary.positive_avg_confidence = 0
        /\ d_summary.negative_count = 0
             => summary.negative_avg_confidence = 0

\* both summaries of a month of three POSITIVE reviews whose mean
\* confidence has more than four decimals
C21_Witness ==
    /\ d_pc = "compared"
    /\ d_summary.positive_count = 3
    /\ d_summary.negative_count = 0
    /\ d_summary.positive_avg_confidence.num
          % (10 * d_summary.positive_avg_confidence.den) # 0
    /\ summary.positive_avg_confidence > 0

-----------------------------------------------------------------------------
(* Properties of the scrapers' browsers *)

\* a browser that was started, and the function it was started in has
\* returned or raised
ReviewsLeft == driver # "none" /\ sc_pc \in {"returned", "failed", "scraped"}

ProductsLeft == p_driver # "none" /\ p_pc \in {"returned", "failed"}

TestimonialsLeft == t_driver # "none" /\ t_pc \in {"returned", "failed", "scraped"}

\* never more than one quit, a quit browser was quit once, a function is
\* never left with its browser open, and the loops keep to their limits
QuitAtMostOnce ==
    /\ quits <= 1 /\ p_quits <= 1 /\ t_quits <= 1
    /\ driver = "quit" <=> quits = 1
    /\ p_driver = "quit" <=> p_quits = 1
    /\ t_driver = "quit" <=> t_quits = 1
    /\ ReviewsLeft => driver = "quit"
    /\ ProductsLeft => p_driver = "quit"
    /\ TestimonialsLeft => t_driver = "quit"
    /\ sc_pc = "returned" => quits = 1
    /\ p_pc = "returned" => p_quits = 1
    /\ t_pc = "returned" => t_quits = 1
    /\ click_count <= MaxClicks
    /\ scrolls <= MaxScrolls /\ scroll_count <= scrolls
    /\ page \in 1..MaxPages

\* C22: in scrape_reviews_selenium, scrape_products and
\* scrape_testimonials_selenium a browser driver that was created is
\* eventually quit, and exactly once, whether the function returns or an
\* exception leaves it (a timeout of the first wait, an exception of
\* driver.get or find_elements); the Load More loop makes at most 10 clicks
\* and the scroll loop at most 5 scrolls
C22_DriverQuitExactlyOnce ==
    /\ []QuitAtMostOnce
    /\ (driver = "open") ~> (driver = "quit" /\ quits = 1)
    /\ (p_driver = "open") ~> (p_driver = "quit" /\ p_quits = 1)
    /\ (t_driver = "open") ~> (t_driver = "quit" /\ t_quits = 1)

\* scrape_products was left by an exception on a later page, after it had
\* parsed products, and its browser has been quit once
C22_Witness ==
    /\ p_pc = "failed"
    /\ page > 1
    /\ all_products # <<>>
    /\ p_driver = "quit"
    /\ p_quits = 1

====
